---- MODULE Spec2Model ----
(***************************************************************************)
(* A model of the rate limiting engine of ratelimiter_ext/limiters.py:     *)
(* TokenBucketLimiter, SlidingWindowLimiter, FixedWindowLimiter and        *)
(* CompositeLimiter, their per-key state, their locks and the threads      *)
(* that call them, of HelloWorldAgentExecutor.execute, which puts a token  *)
(* bucket in front of the hello world agent, and of the executor that      *)
(* RateLimitingExtension.wrap_executor puts around a delegate.             *)
(*                                                                         *)
(* Time.  time.time() is the variable clock, counted in whole seconds;     *)
(* window is a whole number of seconds as in the code's signature.         *)
(*                                                                         *)
(* Numbers.  The code's floats are modelled as exact rationals.  A token   *)
(* count is stored as the integer tokens * TokScale, where TokScale is a   *)
(* common multiple of every window, so that elapsed * limit / window is    *)
(* exact.  A duration or a timestamp of a decision (retry_after,           *)
(* reset_time) is stored as the integer seconds * TimeScale.               *)
(***************************************************************************)
EXTENDS Integers, Sequences, FiniteSets, TLC

\* ------------------------------------------------------------------ bounds
MaxTime == 5
MaxLimit == 3
MaxCalls == 5
MaxCompositeCalls == 3
MaxThreadCalls == 4
MaxRaceCalls == 2
MaxExecutions == 22
MaxWrappedCalls == 4
MaxAnyLimitCalls == 3
MaxKeyCalls == 3

Keys == {"k1", "k2"}
Limits == 1..MaxLimit
Windows == {2, 3}
Threads == {"t1", "t2"}

\* ----------------------------------------------------------------- helpers
Min(a, b) == IF a <= b THEN a ELSE b
Max(a, b) == IF a >= b THEN a ELSE b

\* a // b of Python for b # 0: the quotient rounded down
FloorDiv(a, b) == IF b > 0 THEN a \div b ELSE (0 - a) \div (0 - b)
\* int(a / b) of Python for b > 0: the quotient rounded towards zero
Trunc(a, b) == IF a >= 0 THEN a \div b ELSE 0 - ((0 - a) \div b)

RECURSIVE Gcd(_, _)
Gcd(a, b) == IF b = 0 THEN a ELSE Gcd(b, a % b)
Lcm(a, b) == (a * b) \div Gcd(a, b)

RECURSIVE LcmOf(_)
LcmOf(S) == IF S = {} THEN 1
            ELSE LET x == CHOOSE y \in S : TRUE IN Lcm(x, LcmOf(S \ {x}))

\* usage = self.rate_limiter.check_limit(key=client_key, limit=10, window=60)
ExecLimit == 10
ExecWindow == 60

\* default_limits = {"requests": 100, "window": 60}
WrapRequests == 100
WrapWindow == 60

\* tokens are stored times TokScale
TokScale == LcmOf(Windows \cup {ExecWindow})
\* the small buffer 0.001 of SlidingWindowLimiter.check_limit is 1 / EpsDen
EpsDen == 1000
\* decision times are stored times TimeScale
TimeScale == TokScale * LcmOf(Limits \cup {ExecLimit, WrapRequests}) * EpsDen

\* An optional value (float | None): <<>> is None, <<v>> is v.
None == <<>>
Some(v) == <<v>>

\* dict operations
EmptyDict == [k \in {} |-> 0]
Put_all(d, key, v) == [k \in (DOMAIN d) \cup {key} |-> v]
Put(d, key, v) == [k \in (DOMAIN d) \cup {key} |-> IF k = key THEN v ELSE d[k]]
Del(d, key) == [k \in (DOMAIN d) \ {key} |-> d[k]]

\* ------------------------------------------------------- RateLimitResult
RateLimitResult(allowed, remaining, reset_time, retry_after, limit_type) ==
    [allowed |-> allowed, remaining |-> remaining, reset_time |-> reset_time,
     retry_after |-> retry_after, limit_type |-> limit_type]

\* What a call hands back: the new state map, the decision, and the
\* exception that ended it ("none" when it returned).
Outcome(state, result, error) == [state |-> state, result |-> result, error |-> error]
NoResult == RateLimitResult(FALSE, 0, None, None, "unknown")

\* ---------------------------------------------------- TokenBucketLimiter
\* capacity_multiplier is the rational num / den
Mult(n, d) == [num |-> n, den |-> d]
DefaultMult == Mult(2, 1)

\* TBCapacity forgetting the multiplier
TBCapacity_nomult(limit, mult) == limit

\* capacity = int(limit * self.capacity_multiplier)
TBCapacity(limit, mult) == Trunc(limit * mult.num, mult.den)

\* TBRefill at twice the rate
TBRefill_double(tokens, time_elapsed, limit, window, capacity) ==
    Min(capacity * TokScale, tokens + 2 * time_elapsed * limit * FloorDiv(TokScale, window))

\* TBRefill without the cap at capacity
TBRefill_nocap(tokens, time_elapsed, limit, window, capacity) ==
    tokens + time_elapsed * limit * FloorDiv(TokScale, window)

\* bucket['tokens'] = min(capacity, bucket['tokens'] + time_elapsed * rate)
TBRefill(tokens, time_elapsed, limit, window, capacity) ==
    Min(capacity * TokScale, tokens + time_elapsed * limit * FloorDiv(TokScale, window))

\* retry_after = (1 - bucket['tokens']) / rate
TBRetryAfter(tokens, limit, window) ==
    FloorDiv((TokScale - tokens) * window * (TimeScale \div TokScale), limit)

\* TBAllow reporting the tokens before the one consumed
TBAllow_before(tokens) ==
    RateLimitResult(TRUE, tokens \div TokScale, None, None, "token_bucket")

\* the allowed branch: consume one token, remaining = int(bucket['tokens'])
TBAllow(tokens) ==
    RateLimitResult(TRUE, (tokens - TokScale) \div TokScale, None, None, "token_bucket")

\* the denied branch
TBDeny(tokens, limit, window) ==
    RateLimitResult(FALSE, 0, None, Some(TBRetryAfter(tokens, limit, window)),
                    "token_bucket")

\* the bucket of a key, created full on the first check
TBBucket(bks, key, capacity, now) ==
    IF key \in DOMAIN bks THEN bks[key]
    ELSE [tokens |-> capacity * TokScale, last_update |-> now]

\* TBCheck taking a token for a denied check too
TBCheck_charged(bks, key, limit, window, now, mult) ==
    LET capacity == TBCapacity(limit, mult)
        bucket == TBBucket(bks, key, capacity, now)
        tokens == TBRefill(bucket.tokens, now - bucket.last_update, limit, window, capacity)
    IN  IF tokens >= TokScale
        THEN Outcome(Put(bks, key, [tokens |-> tokens - TokScale, last_update |-> now]),
                     TBAllow(tokens), "none")
        ELSE Outcome(Put(bks, key, [tokens |-> tokens - TokScale, last_update |-> now]),
                     TBDeny(tokens, limit, window), "none")

\* TokenBucketLimiter.check_limit with now = time.time() already read.
\* rate = limit / window raises ZeroDivisionError before the lock when window is 0;
\* (1 - tokens) / rate raises it in the denied branch when limit is 0, the bucket
\* already written.
TBCheck(bks, key, limit, window, now, mult) ==
    IF window = 0 THEN Outcome(bks, NoResult, "ZeroDivisionError")
    ELSE
    LET capacity == TBCapacity(limit, mult)
        bucket == TBBucket(bks, key, capacity, now)
        tokens == TBRefill(bucket.tokens, now - bucket.last_update, limit, window, capacity)
    IN  IF tokens >= TokScale
        THEN Outcome(Put(bks, key, [tokens |-> tokens - TokScale, last_update |-> now]),
                     TBAllow(tokens), "none")
        ELSE IF limit = 0
        THEN Outcome(Put(bks, key, [tokens |-> tokens, last_update |-> now]),
                     NoResult, "ZeroDivisionError")
        ELSE Outcome(Put(bks, key, [tokens |-> tokens, last_update |-> now]),
                     TBDeny(tokens, limit, window), "none")

\* TokenBucketLimiter.reset
TBReset(bks, key) == IF key \in DOMAIN bks THEN Del(bks, key) ELSE bks

\* -------------------------------------------------- SlidingWindowLimiter
DefaultMaxEntries == 10000

\* SWExpired dropping an entry one second early
SWExpired_early(t, now, window) == t <= now - window + 1

\* request_times[0] <= window_start, with window_start = now - window
SWExpired(t, now, window) == t <= now - window

\* while request_times and request_times[0] <= window_start: popleft()
RECURSIVE SWTrim(_, _, _)
SWTrim(request_times, now, window) ==
    IF request_times # <<>> /\ SWExpired(Head(request_times), now, window)
    THEN SWTrim(Tail(request_times), now, window)
    ELSE request_times

\* SWAppend evicting as soon as the log reaches max_entries_per_key
SWAppend_tight(request_times, now, max_entries) ==
    LET appended == Append(request_times, now)
    IN  IF Len(appended) >= max_entries THEN Tail(appended) ELSE appended

\* SWAppend without the cap
SWAppend_uncapped(request_times, now, max_entries) == Append(request_times, now)

\* append(now), then popleft() when the log is longer than max_entries_per_key
SWAppend(request_times, now, max_entries) ==
    LET appended == Append(request_times, now)
    IN  IF Len(appended) > max_entries THEN Tail(appended) ELSE appended

\* SWAllow handing out a retry_after with the grant
SWAllow_retry(current_count, limit, window, now) ==
    RateLimitResult(TRUE, limit - current_count - 1, Some((now + window) * TimeScale),
                    Some(0), "sliding_window")

\* SWAllow not counting the check it grants
SWAllow_uncounted(current_count, limit, window, now) ==
    RateLimitResult(TRUE, limit - current_count, Some((now + window) * TimeScale),
                    None, "sliding_window")

\* the allowed branch
SWAllow(current_count, limit, window, now) ==
    RateLimitResult(TRUE, limit - current_count - 1, Some((now + window) * TimeScale),
                    None, "sliding_window")

\* the denied branch: retry_after = max(0, oldest + window - now + 0.001)
SWDeny(oldest_in_window, window, now) ==
    RateLimitResult(FALSE, 0, Some((oldest_in_window + window) * TimeScale),
                    Some(Max(0, (oldest_in_window + window - now) * TimeScale
                                 + TimeScale \div EpsDen)),
                    "sliding_window")

\* SlidingWindowLimiter.check_limit with now = time.time() already read
SWCheck(wins, key, limit, window, now, max_entries) ==
    LET log0 == IF key \in DOMAIN wins THEN wins[key] ELSE <<>>
        request_times == SWTrim(log0, now, window)
        current_count == Len(request_times)
    IN  IF current_count < limit
        THEN Outcome(Put(wins, key, SWAppend(request_times, now, max_entries)),
                     SWAllow(current_count, limit, window, now), "none")
        ELSE IF request_times = <<>>
        THEN Outcome(Put(wins, key, request_times), NoResult, "IndexError")
        ELSE Outcome(Put(wins, key, request_times),
                     SWDeny(Head(request_times), window, now), "none")

\* SWReset leaving the log as it is
SWReset_noop(wins, key) == wins

\* SlidingWindowLimiter.reset: the key stays, its log is cleared
SWReset(wins, key) == IF key \in DOMAIN wins THEN Put(wins, key, <<>>) ELSE wins

\* ---------------------------------------------------- FixedWindowLimiter
\* FWWindowStart taking the time of the check for the start of its window
FWWindowStart_unaligned(now, window) == now

\* window_start = int(now // window) * window
FWWindowStart(now, window) == FloorDiv(now, window) * window

\* the record of a key, created on the first check
FWData(wins, key, window_start) ==
    IF key \in DOMAIN wins THEN wins[key]
    ELSE [count |-> 0, window_start |-> window_start]

\* FWRoll starting the count again on every check
FWRoll_always(window_data, window_start) == [count |-> 0, window_start |-> window_start]

\* FWRoll keeping the count across the boundary
FWRoll_keep(window_data, window_start) ==
    [window_data EXCEPT !.window_start = window_start]

\* if window_data['window_start'] != window_start: count = 0
FWRoll(window_data, window_start) ==
    IF window_data.window_start # window_start
    THEN [count |-> 0, window_start |-> window_start]
    ELSE window_data

\* FWAllow reporting the whole limit as left
FWAllow_whole(count, limit, window, window_start) ==
    RateLimitResult(TRUE, limit, Some((window_start + window) * TimeScale),
                    None, "fixed_window")

\* FWAllow reporting what was left before the increment
FWAllow_before(count, limit, window, window_start) ==
    RateLimitResult(TRUE, limit - (count - 1), Some((window_start + window) * TimeScale),
                    None, "fixed_window")

\* the allowed branch, count already incremented
FWAllow(count, limit, window, window_start) ==
    RateLimitResult(TRUE, limit - count, Some((window_start + window) * TimeScale),
                    None, "fixed_window")

\* FWDeny telling the caller to wait a whole window
FWDeny_whole(window, window_start, now) ==
    RateLimitResult(FALSE, 0, Some((window_start + window) * TimeScale),
                    Some(window * TimeScale), "fixed_window")

\* the denied branch: retry_after = max(0, window_start + window - now)
FWDeny(window, window_start, now) ==
    RateLimitResult(FALSE, 0, Some((window_start + window) * TimeScale),
                    Some(Max(0, (window_start + window - now) * TimeScale)),
                    "fixed_window")

\* FixedWindowLimiter.check_limit with now = time.time() already read.
\* now // window raises ZeroDivisionError before the lock when window is 0.
FWCheck(wins, key, limit, window, now) ==
    IF window = 0 THEN Outcome(wins, NoResult, "ZeroDivisionError")
    ELSE
    LET window_start == FWWindowStart(now, window)
        window_data == FWRoll(FWData(wins, key, window_start), window_start)
    IN  IF window_data.count < limit
        THEN Outcome(Put(wins, key, [window_data EXCEPT !.count = @ + 1]),
                     FWAllow(window_data.count + 1, limit, window, window_start), "none")
        ELSE Outcome(Put(wins, key, window_data),
                     FWDeny(window, window_start, now), "none")

\* FWReset writing an empty record for the key
FWReset_create(wins, key) == Put(wins, key, [count |-> 0, window_start |-> 0])

\* FixedWindowLimiter.reset
FWReset(wins, key) == IF key \in DOMAIN wins THEN Del(wins, key) ELSE wins

\* ------------------------------------------------------------- the state
VARIABLES
    clock,        \* time.time(), in seconds
    mult,         \* TokenBucketLimiter.capacity_multiplier
    max_entries,  \* SlidingWindowLimiter.max_entries_per_key
    cfg,          \* the (limit, window) the callers of this run pass
    limiters,     \* CompositeLimiter.limiters: the sub-strategies in dict order
    store,        \* store.tb = TokenBucketLimiter.buckets, store.sw and
                  \* store.fw = the windows of the sliding and the fixed limiter
    lock,         \* lock[n]: the thread inside "with self._lock" of limiter n
    pc,           \* pc[t]: where thread t is in its call
    call,         \* call[t]: the call thread t is making, with the time it read
    hist,         \* hist[n]: the calls limiter n has completed, oldest first
    event_queue,  \* the messages HelloWorldAgentExecutor.execute has enqueued
    invocations,  \* how often HelloWorldAgent.invoke has run
    executed      \* the execute calls made, and how the last of them ended

vars == <<clock, mult, max_entries, cfg, limiters, store, lock, pc, call, hist,
          event_queue, invocations, executed>>

Strategies == {"tb", "sw", "fw"}
Names == Strategies \cup {"composite"}
Free == "free"
\* no execute call made yet
NoExecution == [calls |-> 0, requested |-> FALSE, usage |-> NoResult, error |-> "none"]
NoCall == [name |-> "none", key |-> "none", now |-> 0]

\* the multipliers of the runs: 0.5, 1, 1.5 and the default 2.0
Mults == {Mult(1, 2), Mult(1, 1), Mult(3, 2), DefaultMult}
\* the caps of the runs: one below the largest limit, and the default
MaxEntriesChoices == {MaxLimit - 1, DefaultMaxEntries}
Configs == [limit : Limits, window : Windows]

\* every order of every subset of the strategies
Orders == {<<>>} \cup {<<a>> : a \in Strategies}
          \cup {<<a, b>> : <<a, b>> \in {x \in Strategies \X Strategies : x[1] # x[2]}}
          \cup {<<x[1], x[2], x[3]>> : x \in {y \in Strategies \X Strategies \X Strategies :
                                              Cardinality({y[1], y[2], y[3]}) = 3}}

\* the state of one key in a state map, None when the map does not hold it
StateOf(st, key) == IF key \in DOMAIN st THEN Some(st[key]) ELSE None

\* one completed call, as hist records it
Event(op, key, limit, window, now, out, via) ==
    [op |-> op, key |-> key, limit |-> limit, window |-> window, now |-> now,
     result |-> out.result, error |-> out.error, state |-> StateOf(out.state, key),
     via |-> via]

\* limiter.check_limit(key, limit, window) of strategy n on its state map st
CheckLimit(n, st, key, limit, window, now) ==
    CASE n = "tb" -> TBCheck(st, key, limit, window, now, mult)
      [] n = "sw" -> SWCheck(st, key, limit, window, now, max_entries)
      [] n = "fw" -> FWCheck(st, key, limit, window, now)

\* ResetKey leaving the state map as it is
ResetKey_noop(n, st, key) == st

\* limiter.reset(key) of strategy n on its state map st
ResetKey(n, st, key) ==
    CASE n = "tb" -> TBReset(st, key)
      [] n = "sw" -> SWReset(st, key)
      [] n = "fw" -> FWReset(st, key)

\* the limiters as constructed, no call made
InitState ==
    /\ clock = 0
    /\ store = [tb |-> EmptyDict, sw |-> EmptyDict, fw |-> EmptyDict]
    /\ lock = [n \in Strategies |-> Free]
    /\ pc = [t \in Threads |-> "idle"]
    /\ call = [t \in Threads |-> NoCall]
    /\ hist = [tb |-> <<>>, sw |-> <<>>, fw |-> <<>>, composite |-> <<>>]
    /\ event_queue = <<>>
    /\ invocations = 0
    /\ executed = NoExecution

\* the runs whose callers pass a valid (limit, window)
InitCommon ==
    /\ InitState
    /\ cfg \in Configs

\* time passes
Tick ==
    /\ clock < MaxTime
    /\ clock' = clock + 1
    /\ UNCHANGED <<mult, max_entries, cfg, limiters, store, lock, pc, call, hist, event_queue, invocations, executed>>

\* one whole check_limit call on strategy n, nothing else running
Check(n, key, limit, window) ==
    LET out == CheckLimit(n, store[n], key, limit, window, clock)
    IN  /\ Len(hist[n]) < MaxCalls
        /\ store' = [store EXCEPT ![n] = out.state]
        /\ hist' = [hist EXCEPT ![n] = Append(@, Event("check", key, limit, window, clock, out, "direct"))]
        /\ UNCHANGED <<clock, mult, max_entries, cfg, limiters, lock, pc, call, event_queue, invocations, executed>>

\* hist after a reset of key: the key's earlier calls are dropped, and the reset
\* is recorded with whether one of them was a denial
Denied(e) == e.op = "check" /\ e.error = "none" /\ ~e.result.allowed
AfterReset(h, key, now, st, via) ==
    LET others == SelectSeq(h, LAMBDA e : e.key # key)
        prior == \E i \in DOMAIN h : h[i].key = key /\ Denied(h[i])
    IN  Append(others, [op |-> "reset", key |-> key, limit |-> 0, window |-> 0,
                        now |-> now, result |-> [NoResult EXCEPT !.allowed = prior],
                        error |-> "none", state |-> StateOf(st, key), via |-> via])

\* one whole reset call on strategy n, nothing else running
Reset(n, key) ==
    LET st == ResetKey(n, store[n], key)
    IN  /\ hist[n] # <<>> => hist[n][Len(hist[n])].op # "reset"
        /\ store' = [store EXCEPT ![n] = st]
        /\ hist' = [hist EXCEPT ![n] = AfterReset(@, key, clock, st, "direct")]
        /\ UNCHANGED <<clock, mult, max_entries, cfg, limiters, lock, pc, call, event_queue, invocations, executed>>

\* the client key of the one-key runs
OneKey == {"k1"}

\* ------------------------------------------- TokenBucketLimiter, one caller
InitTB ==
    /\ InitCommon
    /\ mult \in Mults
    /\ max_entries = DefaultMaxEntries
    /\ limiters = <<>>

TBCall == \E key \in OneKey : Check("tb", key, cfg.limit, cfg.window)
TBResetCall == \E key \in OneKey : Reset("tb", key)

NextTB == Tick \/ TBCall \/ TBResetCall

SpecTB == InitTB /\ [][NextTB]_vars

\* ------------------------------------------------- claims on SpecTB
\* the checks of a key that hist holds: those since the key's last reset
ChecksOf(h, key) == SelectSeq(h, LAMBDA e : e.op = "check" /\ e.key = key)
\* whether the key's recorded checks follow a reset
WasReset(h, key) == \E i \in DOMAIN h : h[i].op = "reset" /\ h[i].key = key
\* whether that reset followed a denial
WasResetAfterDenial(h, key) ==
    \E i \in DOMAIN h : h[i].op = "reset" /\ h[i].key = key /\ h[i].result.allowed

\* floor(limit x capacity_multiplier), written out
FloorCapacity == (cfg.limit * mult.num) \div mult.den

\* C3: for a never-seen or just reset key, of the checks issued with no time
\* elapsing the first floor(limit x capacity_multiplier) are allowed and every
\* later one is denied.
C3_BurstIsCapacity ==
    \A key \in OneKey :
        LET c == ChecksOf(hist.tb, key)
        IN  \A i \in DOMAIN c :
                c[i].now = c[1].now => (c[i].result.allowed <=> i <= FloorCapacity)

\* C3's case: with limit 2 and multiplier 1.5 a just reset key has had 3 checks
\* allowed and the 4th denied, all at one instant.
C3_Witness ==
    LET c == ChecksOf(hist.tb, "k1")
    IN  /\ cfg.limit = 2 /\ mult = Mult(3, 2)
        /\ WasReset(hist.tb, "k1")
        /\ Len(c) = 4 /\ c[4].now = c[1].now
        /\ c[3].result.allowed /\ ~c[4].result.allowed

\* the tokens a check left in the bucket, times TokScale
TokensLeft(e) == e.state[1].tokens

\* floor(min(capacity, tokens_left + w x limit / window)) for the wait between
\* check e and a later check at time t
Refilled(e, t) ==
    Min(FloorCapacity * TokScale,
        TokensLeft(e) + ((t - e.now) * cfg.limit * TokScale) \div cfg.window) \div TokScale

\* check j of c is one of the back-to-back checks that follow check i after a wait
BackToBack(c, i, j) == i < j /\ c[j].now = c[i + 1].now

\* C4, the count: after a check has left the bucket below one token, of the
\* back-to-back checks that follow a wait of w seconds exactly
\* floor(min(capacity, tokens_left + w x limit / window)) are allowed.
C4_RefillCount ==
    \A key \in OneKey :
        LET c == ChecksOf(hist.tb, key)
        IN  \A i, j \in DOMAIN c :
                (BackToBack(c, i, j) /\ TokensLeft(c[i]) < TokScale)
                    => (c[j].result.allowed <=> j - i <= Refilled(c[i], c[j].now))

C10_AsClaimed ==
    \A key \in OneKey :
        LET c == ChecksOf(hist.tb, key)
        IN  (mult = DefaultMult /\ c # <<>>)
                => c[1].result.allowed /\ c[1].result.remaining = cfg.limit - 1

\* C10 amended: with the default multiplier 2.0 the first check of a never-seen or
\* just reset key is allowed with remaining = 2 x limit - 1, the capacity less
\* the token consumed.
C10_FirstRemaining ==
    \A key \in OneKey :
        LET c == ChecksOf(hist.tb, key)
        IN  (mult = DefaultMult /\ c # <<>>)
                => c[1].result.allowed /\ c[1].result.remaining = 2 * cfg.limit - 1

\* C10's case: the first check after a reset that followed a denial, with the
\* default multiplier.
C10_Witness ==
    /\ mult = DefaultMult /\ cfg.limit = 2
    /\ WasResetAfterDenial(hist.tb, "k1")
    /\ Len(ChecksOf(hist.tb, "k1")) = 1

\* ----------------------------------------- SlidingWindowLimiter, one caller
InitSW ==
    /\ InitCommon
    /\ mult = DefaultMult
    /\ max_entries \in MaxEntriesChoices
    /\ limiters = <<>>

SWCall == \E key \in OneKey : Check("sw", key, cfg.limit, cfg.window)
SWResetCall == \E key \in OneKey : Reset("sw", key)

NextSW == Tick \/ SWCall \/ SWResetCall

SpecSW == InitSW /\ [][NextSW]_vars

\* the times of the allowed checks among c
Grants(c) == SelectSeq(c, LAMBDA e : e.error = "none" /\ e.result.allowed)
\* how many of the events g have their time in (t - window, t]
InTrailing(g, t, window) ==
    Cardinality({i \in DOMAIN g : g[i].now > t - window /\ g[i].now <= t})

\* at most limit allowed checks of every key in every trailing window
SWWindowBound ==
    \A key \in OneKey : \A t \in 0..MaxTime :
        InTrailing(Grants(ChecksOf(hist.sw, key)), t, cfg.window) <= cfg.limit

\* C2 as claimed: for every max_entries_per_key, the allowed checks with time in
\* (t - window, t] are at most limit, for every t.
C2_AsClaimed == SWWindowBound

\* C2 amended: whenever limit <= max_entries_per_key, the allowed checks with time
\* in (t - window, t] are at most limit, for every t.
C2_TrailingWindow == cfg.limit <= max_entries => SWWindowBound

\* C2's case: limit checks allowed, one more denied inside the window, and a
\* later one allowed once the oldest has left the window.
C2_Witness ==
    LET c == ChecksOf(hist.sw, "k1")
    IN  /\ cfg.limit <= max_entries /\ cfg.limit = 2
        /\ Len(c) = 5
        /\ c[1].result.allowed /\ c[2].result.allowed /\ ~c[3].result.allowed
        /\ c[2].now > c[1].now
        /\ c[4].result.allowed /\ c[4].now = c[1].now + cfg.window
        /\ ~c[5].result.allowed

\* ------------------------------------------- FixedWindowLimiter, one caller
InitFW ==
    /\ InitCommon
    /\ mult = DefaultMult
    /\ max_entries = DefaultMaxEntries
    /\ limiters = <<>>

FWCall == \E key \in OneKey : Check("fw", key, cfg.limit, cfg.window)
FWResetCall == \E key \in OneKey : Reset("fw", key)

NextFW == Tick \/ FWCall \/ FWResetCall

SpecFW == InitFW /\ [][NextFW]_vars

\* floor(t / window) x window, written out
Aligned(t, window) == t - (t % window)
\* how many checks before check j of c fall in j's epoch-aligned window
EarlierInWindow(c, j, window) ==
    Cardinality({i \in 1..(j - 1) : Aligned(c[i].now, window) = Aligned(c[j].now, window)})

\* C5: the count starts again at every epoch-aligned boundary: the first limit
\* checks of a window are allowed whatever the window before it held, and one
\* more in the same window is denied.
C5_BoundaryReset ==
    \A key \in OneKey :
        LET c == ChecksOf(hist.fw, key)
        IN  \A j \in DOMAIN c :
                /\ EarlierInWindow(c, j, cfg.window) < cfg.limit => c[j].result.allowed
                /\ EarlierInWindow(c, j, cfg.window) = cfg.limit => ~c[j].result.allowed

\* C5's case: with limit 2, two checks allowed and a third denied in the last
\* second of a window, then two more allowed in the first second of the next.
C5_Witness ==
    LET c == ChecksOf(hist.fw, "k1")
    IN  /\ cfg.limit = 2 /\ Len(c) = 5
        /\ c[1].now = cfg.window - 1 /\ c[3].now = c[1].now
        /\ c[1].result.allowed /\ c[2].result.allowed /\ ~c[3].result.allowed
        /\ c[4].now = cfg.window /\ c[5].now = cfg.window
        /\ c[4].result.allowed /\ c[5].result.allowed

\* ------------------------------------------------------ CompositeLimiter
\* the decisions of the sub-strategies invoked so far, and their state maps
CompositeAcc(st, outs) == [store |-> st, outs |-> outs]

\* CompositeStops never leaving the loop
CompositeStops_never(result) == FALSE

\* if not result.allowed: ... return result
CompositeStops(result) == ~result.allowed

\* CompositeDenial handing the sub-strategy's decision back as it is
CompositeDenial_plain(result) == result

\* result.limit_type = f'composite_{result.limit_type}'
CompositeDenial(result) == [result EXCEPT !.limit_type = "composite_" \o @]

\* min(r.remaining for r in results if r.remaining is not None)
CompositeMin(results) ==
    CHOOSE m \in {results[i].remaining : i \in DOMAIN results} :
        \A i \in DOMAIN results : m <= results[i].remaining

\* for _name, limiter in self.limiters.items(): from the i-th sub-strategy on,
\* every sub-strategy reading the clock as now
RECURSIVE CompositeLoop(_, _, _, _, _, _, _)
CompositeLoop(order, i, acc, key, limit, window, now) ==
    IF i > Len(order) THEN acc
    ELSE LET n == order[i]
             out == CheckLimit(n, acc.store[n], key, limit, window, now)
             next == CompositeAcc([acc.store EXCEPT ![n] = out.state],
                                  Append(acc.outs, out))
         IN  IF out.error # "none" \/ CompositeStops(out.result) THEN next
             ELSE CompositeLoop(order, i + 1, next, key, limit, window, now)

\* what CompositeLimiter.check_limit hands back once its loop has ended with the
\* sub-outcomes outs: a sub-strategy's exception, the denial, the ValueError of
\* min() over no results, or the composite decision
CompositeReturn(outs) ==
    LET results == [i \in DOMAIN outs |-> outs[i].result]
        last == outs[Len(outs)]
    IN  IF outs # <<>> /\ last.error # "none" THEN [result |-> NoResult, error |-> last.error]
        ELSE IF outs # <<>> /\ ~last.result.allowed
        THEN [result |-> CompositeDenial(last.result), error |-> "none"]
        ELSE IF outs = <<>> THEN [result |-> NoResult, error |-> "ValueError"]
        ELSE [result |-> RateLimitResult(TRUE, CompositeMin(results), None, None, "composite"),
              error |-> "none"]

\* CompositeCheck giving back what the sub-strategies consumed when it denies
CompositeCheck_refund(order, st, key, limit, window, now) ==
    LET acc == CompositeLoop(order, 1, CompositeAcc(st, <<>>), key, limit, window, now)
        ret == CompositeReturn(acc.outs)
    IN  [store |-> IF ret.error = "none" /\ ~ret.result.allowed THEN st ELSE acc.store,
         outs |-> acc.outs, result |-> ret.result, error |-> ret.error]

\* CompositeLimiter.check_limit, nothing else running
CompositeCheck(order, st, key, limit, window, now) ==
    LET acc == CompositeLoop(order, 1, CompositeAcc(st, <<>>), key, limit, window, now)
        ret == CompositeReturn(acc.outs)
    IN  [store |-> acc.store, outs |-> acc.outs, result |-> ret.result, error |-> ret.error]

\* CompositeReset resetting the first sub-strategy only
CompositeReset_first(order, i, st, key) ==
    IF order = <<>> THEN st
    ELSE [st EXCEPT ![order[1]] = ResetKey(order[1], st[order[1]], key)]

\* for limiter in self.limiters.values(): limiter.reset(key)
RECURSIVE CompositeReset(_, _, _, _)
CompositeReset(order, i, st, key) ==
    IF i > Len(order) THEN st
    ELSE CompositeReset(order, i + 1,
                        [st EXCEPT ![order[i]] = ResetKey(order[i], st[order[i]], key)], key)

\* hist with the sub-calls of one composite check appended, each to its strategy
SubEvents(h, order, outs, key, limit, window, now) ==
    [n \in DOMAIN h |->
        IF \E i \in DOMAIN outs : order[i] = n
        THEN LET i == CHOOSE i \in DOMAIN outs : order[i] = n
             IN  Append(h[n], Event("check", key, limit, window, now, outs[i], "composite"))
        ELSE h[n]]

\* the record of one composite check
CompositeEvent(key, limit, window, now, c) ==
    [op |-> "check", key |-> key, limit |-> limit, window |-> window, now |-> now,
     result |-> c.result, error |-> c.error, invoked |-> Len(c.outs), via |-> "direct"]

\* one whole CompositeLimiter.check_limit call, nothing else running
CompositeCall(key, limit, window) ==
    LET c == CompositeCheck(limiters, store, key, limit, window, clock)
        h == SubEvents(hist, limiters, c.outs, key, limit, window, clock)
    IN  /\ Len(hist.composite) < MaxCompositeCalls
        /\ store' = c.store
        /\ hist' = [h EXCEPT !.composite = Append(@, CompositeEvent(key, limit, window, clock, c))]
        /\ UNCHANGED <<clock, mult, max_entries, cfg, limiters, lock, pc, call, event_queue, invocations, executed>>

\* one whole CompositeLimiter.reset call, nothing else running
CompositeResetCall(key) ==
    LET st == CompositeReset(limiters, 1, store, key)
        resetting == {limiters[i] : i \in DOMAIN limiters}
    IN  /\ hist.composite # <<>>
        /\ hist.composite[Len(hist.composite)].op # "reset"
        /\ store' = st
        /\ hist' = [n \in DOMAIN hist |->
                      IF n \in resetting
                      THEN AfterReset(hist[n], key, clock, st[n], "composite")
                      ELSE IF n = "composite"
                      THEN AfterReset(hist[n], key, clock, EmptyDict, "direct")
                      ELSE hist[n]]
        /\ UNCHANGED <<clock, mult, max_entries, cfg, limiters, lock, pc, call, event_queue, invocations, executed>>

\* the multipliers of the composite runs: a bucket smaller and one larger than limit
CompositeMults == {Mult(1, 2), DefaultMult}

\* the composite and the threaded runs pass the shortest window
CompositeConfigs == {c \in Configs : \A w \in Windows : c.window <= w}

InitComposite ==
    /\ InitCommon
    /\ cfg \in CompositeConfigs
    /\ mult \in CompositeMults
    /\ max_entries = DefaultMaxEntries
    /\ limiters \in Orders

CompositeCheckCall == \E key \in OneKey : CompositeCall(key, cfg.limit, cfg.window)
CompositeResetKey == \E key \in OneKey : CompositeResetCall(key)

NextComposite == Tick \/ CompositeCheckCall \/ CompositeResetKey

SpecComposite == InitComposite /\ [][NextComposite]_vars

\* ------------------------------------------------ claims on SpecComposite
Last(q) == q[Len(q)]
\* a composite check_limit call has just ended
CompositeChecked ==
    /\ Len(hist'.composite) = Len(hist.composite) + 1
    /\ Last(hist'.composite).op = "check"
\* sub-strategy n was invoked in the step
Invoked(n) == hist'[n] # hist[n]
\* sub-strategy n was invoked in the step and denied
DeniedNow(n) == Invoked(n) /\ Denied(Last(hist'[n]))
\* the state of the key in sub-strategy n is what it was before the step
KeyStateKept(n, key) == StateOf(store'[n], key) = StateOf(store[n], key)

\* C6: when the i-th sub-strategy denies in a composite check, no later
\* sub-strategy is invoked and the key's state in every later one is unchanged.
C6_ShortCircuit ==
    [][CompositeChecked =>
        \A i, j \in DOMAIN limiters :
            (DeniedNow(limiters[i]) /\ i < j)
                => ~Invoked(limiters[j])
                   /\ KeyStateKept(limiters[j], Last(hist'.composite).key)]_vars

\* C6's case: of three sub-strategies the first has denied a check while the
\* third holds state for the key from an earlier check.
C6_Witness ==
    /\ Len(limiters) = 3
    /\ Len(hist.composite) >= 2
    /\ Last(hist.composite).op = "check"
    /\ ~Last(hist.composite).result.allowed
    /\ Last(hist.composite).invoked = 1
    /\ Len(hist[limiters[1]]) = Len(hist[limiters[3]]) + 1
    /\ "k1" \in DOMAIN store[limiters[3]]

\* the limit_type of each strategy
TypeOf(n) == CASE n = "tb" -> "token_bucket"
               [] n = "sw" -> "sliding_window"
               [] n = "fw" -> "fixed_window"

\* the decision sub-strategy n gives for the call the composite is passing on
Would(n, e) == CheckLimit(n, store[n], e.key, e.limit, e.window, e.now).result
\* the first sub-strategy in iteration order that denies the call, 0 when none
FirstDenier(e) ==
    IF \E i \in DOMAIN limiters : ~Would(limiters[i], e).allowed
    THEN CHOOSE i \in DOMAIN limiters :
            /\ ~Would(limiters[i], e).allowed
            /\ \A j \in 1..(i - 1) : Would(limiters[j], e).allowed
    ELSE 0

Least(S) == CHOOSE m \in S : \A x \in S : m <= x

\* C8 as claimed: a composite check returns allowed = true if and only if every
\* sub-strategy allows the call, and then remaining is the least remaining of the
\* sub-results and limit_type is composite.
C8_AsClaimed ==
    [][CompositeChecked =>
        LET e == Last(hist'.composite)
            returned == e.error = "none"
        IN  /\ (returned /\ e.result.allowed) <=> FirstDenier(e) = 0
            /\ FirstDenier(e) = 0 =>
                /\ e.result.limit_type = "composite"
                /\ e.result.remaining =
                      Least({Would(limiters[i], e).remaining : i \in DOMAIN limiters})]_vars

\* the same for a composite that holds at least one sub-strategy
C8_AllAllow ==
    [][(CompositeChecked /\ limiters # <<>>) =>
        LET e == Last(hist'.composite)
        IN  /\ e.error = "none"
            /\ e.result.allowed <=> FirstDenier(e) = 0
            /\ FirstDenier(e) = 0 =>
                /\ e.result.limit_type = "composite"
                /\ e.result.remaining =
                      Least({Would(limiters[i], e).remaining : i \in DOMAIN limiters})]_vars

\* the outcome of a check for a key no strategy has seen, made as e was made
EmptyStore == [tb |-> EmptyDict, sw |-> EmptyDict, fw |-> EmptyDict]
NeverSeen(n, e) ==
    IF n = "composite"
    THEN LET c == CompositeCheck(limiters, EmptyStore, e.key, e.limit, e.window, e.now)
         IN  [result |-> c.result, error |-> c.error]
    ELSE LET o == CheckLimit(n, EmptyDict, e.key, e.limit, e.window, e.now)
         IN  [result |-> o.result, error |-> o.error]
\* the first check of the key on limiter n after the key's reset
AfterResetCheck(n, key) == ChecksOf(hist[n], key)[1]
HasAfterResetCheck(n, key) == WasReset(hist[n], key) /\ ChecksOf(hist[n], key) # <<>>
\* the check after a reset has the outcome a never-seen key gets
SameAsNeverSeen(n, key) ==
    LET e == AfterResetCheck(n, key)
    IN  [result |-> e.result, error |-> e.error] = NeverSeen(n, e)

\* C9 as claimed: on every limiter the check that follows reset(key) returns the
\* decision a never-seen key would get, and it is allowed.
C9_AsClaimed ==
    \A n \in Names : \A key \in OneKey :
        HasAfterResetCheck(n, key)
            => /\ SameAsNeverSeen(n, key)
               /\ AfterResetCheck(n, key).error = "none"
               /\ AfterResetCheck(n, key).result.allowed

\* whether limiter n allows a never-seen key: a sliding or a fixed window always,
\* a token bucket when floor(limit x capacity_multiplier) >= 1, a composite when
\* it holds a sub-strategy and each one it holds does
AllowsNeverSeen(n) ==
    CASE n \in {"sw", "fw"} -> TRUE
      [] n = "tb" -> FloorCapacity >= 1
      [] n = "composite" ->
            /\ limiters # <<>>
            /\ (\E i \in DOMAIN limiters : limiters[i] = "tb") => FloorCapacity >= 1

\* C9 amended: on every limiter the check that follows reset(key) has the outcome
\* a never-seen key would get at that time, and it is allowed exactly when the
\* limiter allows a never-seen key.
C9_ResetRestores ==
    \A n \in Names : \A key \in OneKey :
        HasAfterResetCheck(n, key)
            => /\ SameAsNeverSeen(n, key)
               /\ (AfterResetCheck(n, key).error = "none"
                   /\ AfterResetCheck(n, key).result.allowed) <=> AllowsNeverSeen(n)

\* C9's case: a composite of three sub-strategies was reset after a denial, and
\* the check that followed was allowed by all three.
C9_Witness ==
    /\ Len(limiters) = 3
    /\ WasResetAfterDenial(hist.composite, "k1")
    /\ HasAfterResetCheck("composite", "k1")
    /\ AfterResetCheck("composite", "k1").result.allowed
    /\ \A n \in Strategies : HasAfterResetCheck(n, "k1")

\* --------------------------------------------- threads on one strategy
\* The calls a run makes, in flight or completed, on strategy n
InFlight(n) == Cardinality({t \in Threads : call[t].name = n})
\* a run exercises one instance: no thread is in another strategy
OnlyOn(n) ==
    \A m \in Strategies \ {n} : hist[m] = <<>> /\ InFlight(m) = 0

\* now = time.time(): the first statement of check_limit, before the lock
ReadClock(t, n, key) ==
    /\ pc[t] = "idle"
    /\ OnlyOn(n)
    /\ Len(hist[n]) + InFlight(n) < MaxThreadCalls
    /\ call' = [call EXCEPT ![t] = [name |-> n, key |-> key, now |-> clock]]
    /\ pc' = [pc EXCEPT ![t] = "wait"]
    /\ UNCHANGED <<clock, mult, max_entries, cfg, limiters, store, lock, hist, event_queue, invocations, executed>>

\* with self._lock: the thread enters when no thread is inside
Acquire(t) ==
    /\ pc[t] = "wait"
    /\ lock[call[t].name] = Free
    /\ lock' = [lock EXCEPT ![call[t].name] = t]
    /\ pc' = [pc EXCEPT ![t] = "locked"]
    /\ UNCHANGED <<clock, mult, max_entries, cfg, limiters, store, call, hist, event_queue, invocations, executed>>

\* the body of the with block, with the time the thread read before it, and the
\* release of the lock on return
LockedCheck(t) ==
    LET n == call[t].name
        out == CheckLimit(n, store[n], call[t].key, cfg.limit, cfg.window, call[t].now)
    IN  /\ pc[t] = "locked"
        /\ lock[n] = t
        /\ store' = [store EXCEPT ![n] = out.state]
        /\ hist' = [hist EXCEPT ![n] = Append(@, Event("check", call[t].key, cfg.limit,
                                                 cfg.window, call[t].now, out, "direct"))]
        /\ lock' = [lock EXCEPT ![n] = Free]
        /\ pc' = [pc EXCEPT ![t] = "idle"]
        /\ call' = [call EXCEPT ![t] = NoCall]
        /\ UNCHANGED <<clock, mult, max_entries, cfg, limiters, event_queue, invocations, executed>>

InitWindows ==
    /\ InitCommon
    /\ cfg \in CompositeConfigs
    /\ mult = DefaultMult
    /\ max_entries = DefaultMaxEntries
    /\ limiters = <<>>

WindowCall == \E t \in Threads : \E n \in {"sw", "fw"} : \E key \in OneKey : ReadClock(t, n, key)
Enter == \E t \in Threads : Acquire(t)
Run == \E t \in Threads : LockedCheck(t)

NextWindows == Tick \/ WindowCall \/ Enter \/ Run

\* threads calling check_limit on one sliding or one fixed window limiter
SpecWindows == InitWindows /\ [][NextWindows]_vars

\* how many of the events g have their time in the epoch-aligned window of t
InAligned(g, t, window) ==
    Cardinality({i \in DOMAIN g : Aligned(g[i].now, window) = Aligned(t, window)})

\* the allowed decisions of the fixed window limiter with time in one aligned
\* window are at most limit
C1_FixedWindow ==
    \A key \in OneKey : \A t \in 0..MaxTime :
        InAligned(Grants(ChecksOf(hist.fw, key)), t, cfg.window) <= cfg.limit

\* the allowed decisions of the sliding window limiter with time in one trailing
\* window are at most limit
C1_SlidingWindow ==
    \A key \in OneKey : \A t \in 0..MaxTime :
        InTrailing(Grants(ChecksOf(hist.sw, key)), t, cfg.window) <= cfg.limit

\* C1: when threads call check_limit on one instance with one key and one
\* (limit, window), the allowed decisions whose times fall within one window are
\* never more than limit, whatever the order of clock reads and lock entries.
C1_AsClaimed == C1_FixedWindow /\ C1_SlidingWindow

\* ------------------------------------ further claims on SpecComposite
\* C11: every decision a token bucket, a sliding window, a fixed window or a
\* composite limiter returns has remaining = 0 when it denies and no retry_after
\* when it allows.
C11_DecisionShape ==
    \A n \in Names : \A i \in DOMAIN hist[n] :
        LET e == hist[n][i]
        IN  (e.op = "check" /\ e.error = "none")
                => /\ ~e.result.allowed => e.result.remaining = 0
                   /\ e.result.allowed => e.result.retry_after = None

\* C11's case: after a reset a composite of three sub-strategies has allowed one
\* check and denied the next, the denial carrying a retry_after.
C11_Witness ==
    LET c == ChecksOf(hist.composite, "k1")
    IN  /\ Len(limiters) = 3
        /\ WasReset(hist.composite, "k1")
        /\ Len(c) = 2
        /\ c[1].result.allowed /\ c[1].result.retry_after = None
        /\ ~c[2].result.allowed /\ c[2].result.remaining = 0
        /\ c[2].result.retry_after # None

\* a composite reset call has just ended
CompositeWasReset ==
    /\ hist'.composite # hist.composite
    /\ Last(hist'.composite).op = "reset"

\* the outcome of a check: the decision, the exception, the key's state after it
Behaviour(out, key) ==
    [result |-> out.result, error |-> out.error, state |-> StateOf(out.state, key)]

\* C18: once CompositeLimiter.reset(key) has returned, a check_limit for the key
\* on each sub-strategy, at whatever time it comes next, has the outcome it has
\* for a never-seen key.
C18_ResetsEvery ==
    [][CompositeWasReset =>
        \A i \in DOMAIN limiters : \A t \in clock..MaxTime :
            LET n == limiters[i]
                key == Last(hist'.composite).key
            IN  Behaviour(CheckLimit(n, store'[n], key, cfg.limit, cfg.window, t), key)
                = Behaviour(CheckLimit(n, EmptyDict, key, cfg.limit, cfg.window, t), key)]_vars

\* C18's case: a composite of three sub-strategies that all held state for the key,
\* one of them having denied, has just been reset.
C18_Witness ==
    /\ Len(limiters) = 3
    /\ hist.composite # <<>>
    /\ Last(hist.composite).op = "reset"
    /\ WasResetAfterDenial(hist.composite, "k1")
    /\ \A n \in Strategies :
        /\ hist[n] # <<>> /\ Last(hist[n]).op = "reset" /\ Last(hist[n]).via = "composite"
        /\ (n # "sw" => "k1" \notin DOMAIN store[n])
        /\ (n = "sw" => StateOf(store[n], "k1") = Some(<<>>))

\* C19 as claimed: when a composite check returns a denial, its retry_after is at
\* least the retry_after of every sub-strategy that would deny the call.
C19_AsClaimed ==
    [][CompositeChecked =>
        LET e == Last(hist'.composite)
        IN  (e.error = "none" /\ ~e.result.allowed) =>
              \A i \in DOMAIN limiters :
                  ~Would(limiters[i], e).allowed
                      => e.result.retry_after[1] >= Would(limiters[i], e).retry_after[1]]_vars

\* ------------------------- check_limit with limit <= 0 or with window <= 0
\* the (limit, window) pairs with a limit or a window that is not positive
InvalidConfigs ==
    {c \in [limit : {-1, 0, 1}, window : {-2, 0, 2}] : c.limit <= 0 \/ c.window <= 0}

InitInvalid ==
    /\ InitState
    /\ cfg \in InvalidConfigs
    /\ mult = DefaultMult
    /\ max_entries = DefaultMaxEntries
    /\ limiters = <<>>

\* a run calls one strategy
InvalidCheck ==
    \E n \in Strategies : \E key \in OneKey :
        OnlyOn(n) /\ Check(n, key, cfg.limit, cfg.window)
InvalidReset ==
    \E n \in Strategies : \E key \in OneKey : OnlyOn(n) /\ Reset(n, key)

NextInvalid == Tick \/ InvalidCheck \/ InvalidReset

SpecInvalid == InitInvalid /\ [][NextInvalid]_vars

\* a check_limit call on strategy n has just ended
Checked(n) == hist'[n] # hist[n] /\ Last(hist'[n]).op = "check"
\* the call recorded as e was made with limit <= 0 or with window <= 0
Invalid(e) == e.limit <= 0 \/ e.window <= 0

\* C12 as claimed: a check_limit call with limit <= 0 or window <= 0 ends in an
\* error and leaves the strategy's state map as it was.  The code defines no
\* InvalidConfiguration; whatever exception the call raises is taken for it.
C12_AsClaimed ==
    [][\A n \in Strategies :
        (Checked(n) /\ Invalid(Last(hist'[n])))
            => /\ Last(hist'[n]).error # "none"
               /\ store'[n] = store[n]]_vars

\* C13 as claimed: no check_limit call with limit <= 0 or window <= 0 returns
\* allowed = true.
C13_AsClaimed ==
    \A n \in Strategies : \A i \in DOMAIN hist[n] :
        LET e == hist[n][i]
        IN  (e.op = "check" /\ Invalid(e)) => ~(e.error = "none" /\ e.result.allowed)

\* ------------------------------------------- two keys, checks and resets
InitKeys ==
    /\ InitCommon
    /\ cfg \in CompositeConfigs
    /\ mult = DefaultMult
    /\ max_entries = DefaultMaxEntries
    /\ limiters \in Orders

KeysCheck == \E key \in Keys : CompositeCall(key, cfg.limit, cfg.window)
KeysReset == \E key \in Keys : CompositeResetCall(key)

NextKeys == KeysCheck \/ KeysReset

\* a composite of every choice of sub-strategies, called for two keys at one
\* instant (reset reads no clock); the reset of a composite of one sub-strategy
\* is that sub-strategy's reset
SpecKeys == InitKeys /\ [][NextKeys]_vars

\* a reset call on limiter n has just ended
WasResetNow(n) == hist'[n] # hist[n] /\ Last(hist'[n]).op = "reset"
\* strategy n holds nothing for the key
Unseen(n, key) == key \notin DOMAIN store[n]

\* C14: reset(key) on a strategy that has never seen the key, or on a composite
\* none of whose sub-strategies has, raises nothing and leaves the state of
\* every key as it was.
C14_UnknownKeyNoop ==
    [][/\ \A n \in Strategies :
            (WasResetNow(n) /\ Unseen(n, Last(hist'[n]).key))
                => Last(hist'[n]).error = "none" /\ store'[n] = store[n]
       /\ (WasResetNow("composite")
           /\ \A i \in DOMAIN limiters : Unseen(limiters[i], Last(hist'.composite).key))
                => Last(hist'.composite).error = "none" /\ store' = store]_vars

\* C14's case: a composite of three sub-strategies that all hold state for k1 has
\* just been reset for k2, a key none of them has seen.
C14_Witness ==
    /\ Len(limiters) = 3
    /\ hist.composite # <<>>
    /\ Last(hist.composite).op = "reset" /\ Last(hist.composite).key = "k2"
    /\ \A n \in Strategies : "k1" \in DOMAIN store[n] /\ "k2" \notin DOMAIN store[n]
    /\ \A n \in Strategies : \A i \in DOMAIN hist[n] : hist[n][i].key = "k2" => hist[n][i].op = "reset"

\* ------------------------------------------ further claims on SpecWindows
\* a call as a caller sees it: the time it observed and what it got back
Seen(e) == [now |-> e.now, result |-> e.result, error |-> e.error]

\* the times the calls of h observed, in non-decreasing order from t on
RECURSIVE TimesFrom(_, _)
TimesFrom(h, t) ==
    IF t > MaxTime THEN <<>>
    ELSE [i \in 1..Cardinality({j \in DOMAIN h : h[j].now = t}) |-> t] \o TimesFrom(h, t + 1)

\* the check_limit calls of the key at the times ts made one at a time on strategy
\* n, from state map st on: the state map left and what the calls got back
RECURSIVE OneAtATime(_, _, _, _, _)
OneAtATime(n, st, key, ts, seen) ==
    IF ts = <<>> THEN [state |-> st, seen |-> seen]
    ELSE LET out == CheckLimit(n, st, key, cfg.limit, cfg.window, Head(ts))
         IN  OneAtATime(n, out.state, key, Tail(ts),
                        Append(seen, [now |-> Head(ts), result |-> out.result,
                                      error |-> out.error]))

\* the sequences a and b hold the same elements as often
SameBag(a, b) ==
    \A x \in {a[i] : i \in DOMAIN a} \cup {b[i] : i \in DOMAIN b} :
        Cardinality({i \in DOMAIN a : a[i] = x}) = Cardinality({i \in DOMAIN b : b[i] = x})

\* the completed calls of strategy n got back, and left behind, what the same
\* calls get and leave when made one at a time in the order of their times; calls
\* with one time are alike, so that order is the only one to try
Linearizable(n) ==
    LET one == OneAtATime(n, EmptyDict, "k1", TimesFrom(hist[n], 0), <<>>)
    IN  /\ store[n] = one.state
        /\ SameBag([i \in DOMAIN hist[n] |-> Seen(hist[n][i])], one.seen)

\* C15 as claimed: once the concurrent check_limit calls for a key have returned,
\* their decisions and the key's state equal those of a one-at-a-time execution
\* of the same calls in which the observed time never goes backwards.
C15_AsClaimed ==
    (\A t \in Threads : pc[t] = "idle") => \A n \in {"sw", "fw"} : Linearizable(n)

\* ------------------------- threads on a composite: checks racing resets
\* Release keeping the lock when the body of the with block raised
Release_kept(lk, n, error) == IF error = "none" THEN [lk EXCEPT ![n] = Free] ELSE lk

\* the end of "with self._lock": the lock is released, on return and on exception
Release(lk, n, error) == [lk EXCEPT ![n] = Free]

\* the composites of the racing runs: three pairs and the triple
RaceOrders == {<<"tb", "sw">>, <<"sw", "fw">>, <<"fw", "tb">>, <<"tb", "sw", "fw">>}
\* their callers pass the shortest window, and a limit that may be 0: with it the
\* token bucket and the sliding window raise inside their locks
RaceConfigs == {c \in [limit : 0..MaxLimit, window : Windows] : \A w \in Windows : c.window <= w}

\* hist when one composite check for k1 was made before the threads start
PriorCheck ==
    LET c == CompositeCheck(limiters, EmptyStore, "k1", cfg.limit, cfg.window, 0)
        none == [tb |-> <<>>, sw |-> <<>>, fw |-> <<>>, composite |-> <<>>]
        h == SubEvents(none, limiters, c.outs, "k1", cfg.limit, cfg.window, 0)
    IN  [store |-> c.store,
         hist |-> [h EXCEPT !.composite =
                      <<[CompositeEvent("k1", cfg.limit, cfg.window, 0, c) EXCEPT !.via = "prior"]>>]]

\* the limiters as constructed, or as one composite check for k1 has left them
InitRace ==
    /\ clock = 0
    /\ lock = [n \in Strategies |-> Free]
    /\ pc = [t \in Threads |-> "idle"]
    /\ call = [t \in Threads |-> NoCall]
    /\ cfg \in RaceConfigs
    /\ mult = DefaultMult
    /\ max_entries = DefaultMaxEntries
    /\ limiters \in RaceOrders
    /\ event_queue = <<>>
    /\ invocations = 0
    /\ executed = NoExecution
    /\ \/ /\ store = EmptyStore
          /\ hist = [tb |-> <<>>, sw |-> <<>>, fw |-> <<>>, composite |-> <<>>]
       \/ /\ store = PriorCheck.store
          /\ hist = PriorCheck.hist

\* the composite calls the threads have begun
RaceCalls ==
    Cardinality({i \in DOMAIN hist.composite : hist.composite[i].via \in Threads})
    + Cardinality({t \in Threads : pc[t] # "idle"})

\* CompositeLimiter.check_limit begins: results = []
CheckStart(t, key) ==
    /\ pc[t] = "idle"
    /\ RaceCalls < MaxRaceCalls
    /\ call' = [call EXCEPT ![t] = [name |-> "composite", key |-> key, now |-> 0,
                                    op |-> "check", i |-> 1, outs |-> <<>>]]
    /\ pc' = [pc EXCEPT ![t] = "loop"]
    /\ UNCHANGED <<clock, mult, max_entries, cfg, limiters, store, lock, hist, event_queue, invocations, executed>>

\* the loop calls the i-th sub-strategy's check_limit, which reads the clock
SubRead(t) ==
    /\ pc[t] = "loop"
    /\ call' = [call EXCEPT ![t].name = limiters[call[t].i], ![t].now = clock]
    /\ pc' = [pc EXCEPT ![t] = "wait"]
    /\ UNCHANGED <<clock, mult, max_entries, cfg, limiters, store, lock, hist, event_queue, invocations, executed>>

\* the record of one composite call made by thread t
RaceEvent(op, c, ret, invoked, t) ==
    [op |-> op, key |-> c.key, limit |-> cfg.limit, window |-> cfg.window, now |-> c.now,
     result |-> ret.result, error |-> ret.error, invoked |-> invoked, via |-> t]

\* the body of the sub-strategy's with block and the release of its lock; then the
\* composite returns the denial, lets the exception through, returns its own
\* decision after the last sub-strategy, or goes round the loop
SubRun(t) ==
    LET c == call[t]
        n == c.name
        out == CheckLimit(n, store[n], c.key, cfg.limit, cfg.window, c.now)
        outs == Append(c.outs, out)
        done == out.error # "none" \/ CompositeStops(out.result) \/ c.i = Len(limiters)
    IN  /\ pc[t] = "locked" /\ c.op = "check"
        /\ lock[n] = t
        /\ store' = [store EXCEPT ![n] = out.state]
        /\ lock' = Release(lock, n, out.error)
        /\ hist' = [hist EXCEPT
                      ![n] = Append(@, Event("check", c.key, cfg.limit, cfg.window, c.now, out, t)),
                      !.composite = IF done
                                    THEN Append(@, RaceEvent("check", c, CompositeReturn(outs),
                                                             Len(outs), t))
                                    ELSE @]
        /\ pc' = [pc EXCEPT ![t] = IF done THEN "idle" ELSE "loop"]
        /\ call' = [call EXCEPT ![t] = IF done THEN NoCall
                                       ELSE [c EXCEPT !.name = "composite", !.i = @ + 1,
                                                      !.outs = outs]]
        /\ UNCHANGED <<clock, mult, max_entries, cfg, limiters, event_queue, invocations, executed>>

\* CompositeLimiter.reset begins: the first sub-strategy's reset goes for its lock
ResetStart(t, key) ==
    /\ pc[t] = "idle"
    /\ RaceCalls < MaxRaceCalls
    /\ call' = [call EXCEPT ![t] = [name |-> limiters[1], key |-> key, now |-> 0,
                                    op |-> "reset", i |-> 1, outs |-> <<>>]]
    /\ pc' = [pc EXCEPT ![t] = "wait"]
    /\ UNCHANGED <<clock, mult, max_entries, cfg, limiters, store, lock, hist, event_queue, invocations, executed>>

\* the body of the sub-strategy's reset and the release of its lock; then the
\* next sub-strategy's reset goes for its lock, or the composite returns
ResetRun(t) ==
    LET c == call[t]
        n == c.name
        st == ResetKey(n, store[n], c.key)
        done == c.i = Len(limiters)
        e == [op |-> "reset", key |-> c.key, limit |-> 0, window |-> 0, now |-> 0,
              result |-> NoResult, error |-> "none", state |-> StateOf(st, c.key), via |-> t]
    IN  /\ pc[t] = "locked" /\ c.op = "reset"
        /\ lock[n] = t
        /\ store' = [store EXCEPT ![n] = st]
        /\ lock' = Release(lock, n, "none")
        /\ hist' = [hist EXCEPT
                      ![n] = Append(@, e),
                      !.composite = IF done
                                    THEN Append(@, RaceEvent("reset", c,
                                                   [result |-> NoResult, error |-> "none"],
                                                   c.i, t))
                                    ELSE @]
        /\ pc' = [pc EXCEPT ![t] = IF done THEN "idle" ELSE "wait"]
        /\ call' = [call EXCEPT ![t] = IF done THEN NoCall
                                       ELSE [c EXCEPT !.name = limiters[c.i + 1], !.i = @ + 1]]
        /\ UNCHANGED <<clock, mult, max_entries, cfg, limiters, event_queue, invocations, executed>>

RaceCheck == \E t \in Threads : \E key \in OneKey : CheckStart(t, key)
RaceReset == \E t \in Threads : \E key \in OneKey : ResetStart(t, key)
RaceRead == \E t \in Threads : SubRead(t)
RaceRun == \E t \in Threads : SubRun(t)
RaceResetRun == \E t \in Threads : ResetRun(t)

NextRace == RaceCheck \/ RaceReset \/ RaceRead \/ Enter \/ RaceRun \/ RaceResetRun

\* threads calling check_limit and reset on one composite limiter
SpecRace == InitRace /\ [][NextRace]_vars

\* the same under fair scheduling: a thread that can go on does, and a thread
\* that waits for a lock which is free again and again gets it
FairRace ==
    /\ SpecRace
    /\ \A t \in Threads :
        /\ WF_vars(SubRead(t) \/ SubRun(t) \/ ResetRun(t))
        /\ SF_vars(Acquire(t))

\* ------------------------------------------------- claims on the races
\* thread t holds no lock but that of the sub-strategy whose with block it is in
HoldsOnlyInside(t) ==
    \A n \in Strategies : lock[n] = t => pc[t] = "locked" /\ call[t].name = n

\* C16: a thread holds a lock only inside one sub-strategy's with block, never two
\* locks, and none once its call has returned or raised; and under fair scheduling
\* every check_limit and reset call that has begun returns or raises.
C16_NoBlocking ==
    /\ [](\A t \in Threads :
            /\ HoldsOnlyInside(t)
            /\ Cardinality({n \in Strategies : lock[n] = t}) <= 1)
    /\ \A t \in Threads : (pc[t] # "idle") ~> (pc[t] = "idle")

\* C16's case: a check raised inside a sub-strategy's lock, and afterwards the
\* other thread's call entered the same lock; both calls have ended.
C16_Witness ==
    /\ \A t \in Threads : pc[t] = "idle"
    /\ \E n \in Strategies : \E i, j \in DOMAIN hist[n] :
        /\ i < j
        /\ hist[n][i].via \in Threads /\ hist[n][j].via \in Threads
        /\ hist[n][i].via # hist[n][j].via
        /\ hist[n][i].error # "none"

\* the calls of the threads, as hist holds them
ByThreads(h) == SelectSeq(h, LAMBDA e : e.via \in Threads)

\* the threads have made one composite check and one composite reset, both over
RaceOver ==
    /\ \A t \in Threads : pc[t] = "idle"
    /\ LET m == ByThreads(hist.composite)
       IN  Len(m) = 2 /\ {m[1].op, m[2].op} = {"check", "reset"}

\* what the two calls did to sub-strategy n, in the order its lock gave them
OpsOn(n) == LET m == ByThreads(hist[n]) IN [i \in DOMAIN m |-> m[i].op]

\* the check ran on one sub-strategy after the reset had reset it and on another
\* before the reset reached it
PartialReset ==
    \E a, b \in Strategies :
        OpsOn(a) = <<"reset", "check">> /\ OpsOn(b) = <<"check", "reset">>

\* the state maps before the two calls
RaceBefore ==
    IF hist.composite # <<>> /\ hist.composite[1].via = "prior" THEN PriorCheck.store
    ELSE EmptyStore

\* the state maps the two calls leave when one runs after the other
SerialOutcomes ==
    {CompositeReset(limiters, 1,
        CompositeCheck(limiters, RaceBefore, "k1", cfg.limit, cfg.window, 0).store, "k1"),
     CompositeCheck(limiters, CompositeReset(limiters, 1, RaceBefore, "k1"),
                    "k1", cfg.limit, cfg.window, 0).store}

\* C17: when a composite check and a composite reset of one key interleave so that
\* the check sees one sub-strategy already reset and another not yet reset, the
\* sub-strategies are left in a state that neither order of the two calls
\* produces; every other interleaving leaves what one of the two orders leaves.
C17_NotAtomic == RaceOver => (PartialReset <=> store \notin SerialOutcomes)

\* C17's case: on a composite of three sub-strategies that held state for the key,
\* a check and a reset have interleaved into such a partial reset.
C17_Witness ==
    /\ RaceOver /\ PartialReset
    /\ Len(limiters) = 3 /\ cfg.limit >= 1
    /\ hist.composite[1].via = "prior"
    /\ store \notin SerialOutcomes

\* ------------------------------------------- HelloWorldAgentExecutor
\* the methods class RateLimitingExtension defines
ExtensionMethods ==
    {"__init__", "_default_key_extractor", "agent_extension", "add_to_card",
     "is_supported", "activate", "check_limit", "check_and_enforce",
     "check_if_activated", "add_rate_limit_headers", "get_rate_limiter",
     "wrap_executor", "request_activation_http", "wrap_client",
     "client_interceptor", "wrap_client_factory", "reset_limits"}

\* the text of the message execute builds: the refusal, or what the agent said
MessageFor(usage) == IF usage.allowed THEN "Hello World" ELSE "Rate limit exceeded"

\* how the rest of execute ends once the message is built: looking up
\* self.rate_limit_extension.is_activated raises AttributeError when the class
\* has no such method, and so does add_usage_signals when the client asked for
\* the extension
ExtensionError(requested) ==
    IF "is_activated" \notin ExtensionMethods THEN "AttributeError"
    ELSE IF requested /\ "add_usage_signals" \notin ExtensionMethods THEN "AttributeError"
    ELSE "none"

\* HelloWorldAgentExecutor.execute for a request from remote_addr that did or did
\* not ask for the extension
Execute(remote_addr, requested) ==
    LET out == TBCheck(store.tb, remote_addr, ExecLimit, ExecWindow, clock, mult)
        usage == out.result
        error == ExtensionError(requested)
    IN  /\ executed.calls < MaxExecutions
        /\ store' = [store EXCEPT !.tb = out.state]
        /\ invocations' = IF usage.allowed THEN invocations + 1 ELSE invocations
        /\ event_queue' = IF error = "none" THEN Append(event_queue, MessageFor(usage))
                          ELSE event_queue
        /\ executed' = [calls |-> executed.calls + 1, requested |-> requested,
                        usage |-> usage, error |-> error]
        /\ UNCHANGED <<clock, mult, max_entries, cfg, limiters, lock, pc, call, hist>>

\* rate_limiter = TokenBucketLimiter(capacity_multiplier=2.0)
InitExecutor ==
    /\ InitState
    /\ cfg = [limit |-> ExecLimit, window |-> ExecWindow]
    /\ mult = DefaultMult
    /\ max_entries = DefaultMaxEntries
    /\ limiters = <<>>

Serve == \E remote_addr \in OneKey : \E requested \in BOOLEAN : Execute(remote_addr, requested)

NextExecutor == Tick \/ Serve

SpecExecutor == InitExecutor /\ [][NextExecutor]_vars

\* an execute call has just ended
Served == executed'.calls = executed.calls + 1

\* C20 as claimed: every execute call, whether or not the client asked for the
\* extension, ends without error with the decision of the limiter's check_limit;
\* when denied it enqueues one 'Rate limit exceeded' message and does not invoke
\* the agent, when allowed it invokes the agent once and enqueues one greeting.
C20_AsClaimed ==
    [][Served =>
        LET usage == TBCheck(store.tb, "k1", ExecLimit, ExecWindow, clock, mult).result
        IN  /\ executed'.error = "none"
            /\ executed'.usage = usage
            /\ ~usage.allowed =>
                /\ event_queue' = Append(event_queue, "Rate limit exceeded")
                /\ invocations' = invocations
            /\ usage.allowed =>
                /\ event_queue' = Append(event_queue, "Hello World")
                /\ invocations' = invocations + 1]_vars

\* ------------------------- the executor RateLimitingExtension.wrap_executor makes
\* {**a, **b}: the entries of b, and those of a under the keys b does not hold
Merge(a, b) == [k \in (DOMAIN a) \cup (DOMAIN b) |-> IF k \in DOMAIN b THEN b[k] ELSE a[k]]
\* d.get(key, default)
Get(d, key, default) == IF key \in DOMAIN d THEN d[key] ELSE default

\* default_limits of _extract_limits
DefaultLimits == [k \in {"requests", "window"} |->
                    IF k = "requests" THEN WrapRequests ELSE WrapWindow]

\* what a client may put under RATE_LIMIT_FIELD in its message metadata: nothing,
\* its own requests, its own window, or both
Metadata ==
    {EmptyDict,
     [k \in {"requests"} |-> 1],
     [k \in {"window"} |-> 2],
     [k \in {"requests", "window"} |-> IF k = "requests" THEN 1 ELSE 2]}

\* _RateLimitedAgentExecutor._extract_limits
ExtractLimits(metadata) == Merge(DefaultLimits, metadata)

\* RateLimitingExtension.check_limit on the extension's token bucket
ExtCheckLimit(bks, key, limits, now) ==
    TBCheck(bks, key, Get(limits, "requests", 100), Get(limits, "window", 60), now, mult)

\* _RateLimitedAgentExecutor.execute up to its decision: no check when the client
\* did not ask for the extension, else check_and_enforce with the limits extracted
\* from the message; proceeds tells whether the delegate is run
WrappedOutcome(bks, key, requested, metadata, now) ==
    IF ~requested
    THEN [state |-> bks, usage |-> NoResult, error |-> "none", proceeds |-> TRUE]
    ELSE LET out == ExtCheckLimit(bks, key, ExtractLimits(metadata), now)
         IN  [state |-> out.state, usage |-> out.result, error |-> out.error,
              proceeds |-> out.error = "none" /\ out.result.allowed]

\* _RateLimitedAgentExecutor.execute for a request from remote_addr; the delegate
\* invokes its agent and enqueues what it said
WrappedExecute(remote_addr, requested, metadata) ==
    LET w == WrappedOutcome(store.tb, remote_addr, requested, metadata, clock)
    IN  /\ executed.calls < MaxWrappedCalls
        /\ store' = [store EXCEPT !.tb = w.state]
        /\ invocations' = IF w.proceeds THEN invocations + 1 ELSE invocations
        /\ event_queue' = IF w.error # "none" THEN event_queue
                          ELSE IF w.proceeds THEN Append(event_queue, "Hello World")
                          ELSE Append(event_queue, "Rate limit exceeded")
        /\ executed' = [calls |-> executed.calls + 1, requested |-> requested,
                        usage |-> w.usage, error |-> w.error,
                        key |-> remote_addr, metadata |-> metadata]
        /\ UNCHANGED <<clock, mult, max_entries, cfg, limiters, lock, pc, call, hist>>

\* self.limiter = limiter or TokenBucketLimiter()
InitWrapped ==
    /\ InitState
    /\ cfg = [limit |-> WrapRequests, window |-> WrapWindow]
    /\ mult = DefaultMult
    /\ max_entries = DefaultMaxEntries
    /\ limiters = <<>>

WrappedServe ==
    \E remote_addr \in OneKey : \E requested \in BOOLEAN : \E metadata \in Metadata :
        WrappedExecute(remote_addr, requested, metadata)

NextWrapped == Tick \/ WrappedServe

SpecWrapped == InitWrapped /\ [][NextWrapped]_vars

\* C21 as claimed: the decision of the wrapped executor for a request does not
\* depend on the request's message metadata: from the same limiter state, the
\* same request with any other metadata is let through to the delegate exactly
\* when this one is.
C21_AsClaimed ==
    [][Served =>
        \A metadata \in Metadata :
            WrappedOutcome(store.tb, executed'.key, executed'.requested, metadata, clock).proceeds
                <=> invocations' = invocations + 1]_vars

\* ------------------------------------------------ further claims on SpecTB
\* now + (capacity - tokens) / rate for the call recorded as e, times TimeScale
FullAt(e) ==
    e.now * TimeScale
    + FloorDiv((FloorCapacity * TokScale - TokensLeft(e)) * cfg.window * (TimeScale \div TokScale),
               cfg.limit)

\* C22 as claimed: every token bucket decision, allowed or denied, carries
\* reset_time = now + (capacity - tokens) / rate, tokens being the bucket level
\* after the decision and rate = limit / window.
C22_AsClaimed ==
    \A key \in OneKey :
        LET c == ChecksOf(hist.tb, key)
        IN  \A i \in DOMAIN c :
                c[i].error = "none" => c[i].result.reset_time = Some(FullAt(c[i]))

\* check i of c was denied, and check i + 1, the key's next, came retry_after later
RetriedOnTime(c, i) ==
    /\ i + 1 \in DOMAIN c
    /\ Denied(c[i])
    /\ c[i + 1].now * TimeScale = c[i].now * TimeScale + c[i].result.retry_after[1]

\* C23 as claimed: for every limit >= 1, window > 0 and capacity_multiplier > 0,
\* when a denied caller waits the denial's retry_after and checks again, no other
\* check of the key in between, that check is allowed.
C23_AsClaimed ==
    \A key \in OneKey :
        LET c == ChecksOf(hist.tb, key)
        IN  \A i \in DOMAIN c : RetriedOnTime(c, i) => c[i + 1].result.allowed

\* ------------------------------- sliding window denials, one caller or threads
\* the granted timestamps before check i of c that lie in its trailing window
GrantsInWindow(c, i) ==
    {c[j].now : j \in {k \in 1..(i - 1) : /\ c[k].result.allowed
                                          /\ c[k].now > c[i].now - cfg.window
                                          /\ c[k].now <= c[i].now}}

\* the time retry_after after the denial e, in units of the buffer (1 / EpsDen s)
RetryAt(e) == e.now * EpsDen + e.result.retry_after[1] \div (TimeScale \div EpsDen)

\* whether a check at time t, in units of the buffer, is allowed on the log
AllowedAt(request_times, t) ==
    Len(SWTrim([k \in DOMAIN request_times |-> request_times[k] * EpsDen],
               t, cfg.window * EpsDen)) < cfg.limit

\* no check of c from the i-th to the j-th was granted
NoGrant(c, i, j) == \A k \in i..j : ~c[k].result.allowed

\* a sliding window denial returns reset_time = oldest + window and
\* retry_after = max(0, oldest + window - now) + 0.001, oldest being the earliest
\* granted timestamp still inside the trailing window; and a check made
\* retry_after later, no grant for the key in between, is allowed
SWDenialAsClaimed(c) ==
    \A i \in DOMAIN c :
        (Denied(c[i]) /\ GrantsInWindow(c, i) # {}) =>
            LET oldest == Least(GrantsInWindow(c, i))
            IN  /\ c[i].result.reset_time = Some((oldest + cfg.window) * TimeScale)
                /\ c[i].result.retry_after =
                      Some(Max(0, (oldest + cfg.window - c[i].now) * TimeScale)
                           + TimeScale \div EpsDen)
                /\ \A j \in i..Len(c) :
                      (NoGrant(c, i, j) /\ c[j].now * EpsDen <= RetryAt(c[i]))
                          => AllowedAt(c[j].state[1], RetryAt(c[i]))

\* C24 as claimed: every denial of a sliding window limiter, whoever calls it,
\* returns reset_time = oldest + window and retry_after = max(0, oldest + window
\* - now) + 0.001, oldest being the earliest granted timestamp still inside the
\* trailing window, and a check made retry_after later with no grant for the key
\* in between is allowed.
C24_AsClaimed == \A key \in OneKey : SWDenialAsClaimed(ChecksOf(hist.sw, key))

\* ------------------------------------------------ further claims on SpecFW
\* the denial e has reset_time = window_start + window and
\* retry_after = max(0, window_start + window - now)
FWDenialValues(e) ==
    LET window_start == Aligned(e.now, cfg.window)
    IN  /\ e.result.reset_time = Some((window_start + cfg.window) * TimeScale)
        /\ e.result.retry_after =
              Some(Max(0, (window_start + cfg.window - e.now) * TimeScale))

\* check j of c was made retry_after after the denial that check i got
RetryOf(c, i, j) ==
    /\ i < j
    /\ Denied(c[i])
    /\ c[j].now * TimeScale = c[i].now * TimeScale + c[i].result.retry_after[1]

\* check j falls in the aligned window that follows the one of check i
InNextWindow(c, i, j) ==
    Aligned(c[j].now, cfg.window) = Aligned(c[i].now, cfg.window) + cfg.window

\* C25 as claimed: a fixed window denial returns reset_time = window_start + window
\* and retry_after = max(0, window_start + window - now), and a check made
\* retry_after later falls in the next aligned window and is allowed.
C25_AsClaimed ==
    \A key \in OneKey :
        LET c == ChecksOf(hist.fw, key)
        IN  \A i, j \in DOMAIN c :
                /\ Denied(c[i]) => FWDenialValues(c[i])
                /\ RetryOf(c, i, j) => InNextWindow(c, i, j) /\ c[j].result.allowed

\* C25 amended: a fixed window denial returns reset_time = window_start + window
\* and retry_after = max(0, window_start + window - now); a check made retry_after
\* later falls in the next aligned window, and it is allowed when no check of the
\* key was granted in between.
C25_NextWindow ==
    \A key \in OneKey :
        LET c == ChecksOf(hist.fw, key)
        IN  \A i, j \in DOMAIN c :
                /\ Denied(c[i]) => FWDenialValues(c[i])
                /\ RetryOf(c, i, j) =>
                      /\ InNextWindow(c, i, j)
                      /\ NoGrant(c, i, j - 1) => c[j].result.allowed

\* C25's case: with limit 1 and window 2, a grant and a denial at 0, another denial
\* at 1, and the retry of the first denial, at 2, allowed.
C25_Witness ==
    LET c == ChecksOf(hist.fw, "k1")
    IN  /\ cfg.limit = 1 /\ cfg.window = 2 /\ Len(c) = 4
        /\ c[1].result.allowed /\ Denied(c[2]) /\ Denied(c[3])
        /\ c[2].now = 0 /\ c[3].now = 1
        /\ RetryOf(c, 2, 4) /\ c[4].result.allowed

\* ------------------------------------------------ further claims on SpecSW
\* how many checks granted before check j of c have their time in its trailing
\* window (now - window, now]
GrantedInWindow(c, j) ==
    Cardinality({i \in 1..(j - 1) : /\ c[i].result.allowed
                                    /\ c[i].now > c[j].now - cfg.window
                                    /\ c[i].now <= c[j].now})

\* check j of c is allowed exactly when fewer than limit granted timestamps lie in
\* its trailing window, and then with remaining = limit - count - 1 and
\* reset_time = now + window
SWExactAt(c, j) ==
    /\ c[j].result.allowed <=> GrantedInWindow(c, j) < cfg.limit
    /\ c[j].result.allowed =>
        /\ c[j].result.remaining = cfg.limit - GrantedInWindow(c, j) - 1
        /\ c[j].result.reset_time = Some((c[j].now + cfg.window) * TimeScale)

\* the decisions of checks of one key at the times ts, one at a time from the
\* state map wins on
RECURSIVE SWSeries(_, _, _, _, _)
SWSeries(wins, ts, limit, window, results) ==
    IF ts = <<>> THEN results
    ELSE LET out == SWCheck(wins, "k1", limit, window, Head(ts), max_entries)
         IN  SWSeries(out.state, Tail(ts), limit, window, Append(results, out.result))

\* for limit = 3, window = 10: checks at t = 0, 1, 2 allowed, t = 3 denied with
\* retry_after 7.001, t = 11 allowed
SWExample ==
    LET r == SWSeries(EmptyDict, <<0, 1, 2, 3, 11>>, 3, 10, <<>>)
    IN  /\ r[1].allowed /\ r[2].allowed /\ r[3].allowed
        /\ ~r[4].allowed /\ r[4].retry_after = Some(7 * TimeScale + TimeScale \div EpsDen)
        /\ r[5].allowed

\* C26 as claimed: a sliding window check, run one at a time with non-decreasing
\* time, is allowed if and only if fewer than limit granted timestamps of the key
\* lie in the trailing window ending at now, and then returns remaining = limit -
\* count - 1 and reset_time = now + window; for limit = 3, window = 10 the checks
\* at 0, 1, 2 are allowed, that at 3 is denied with retry_after about 7 and that
\* at 11 is allowed.
C26_AsClaimed ==
    /\ \A key \in OneKey :
        LET c == ChecksOf(hist.sw, key) IN \A j \in DOMAIN c : SWExactAt(c, j)
    /\ SWExample

\* C26 amended: the same whenever limit <= max_entries_per_key.
C26_ExactCount ==
    /\ cfg.limit <= max_entries =>
        \A key \in OneKey :
            LET c == ChecksOf(hist.sw, key) IN \A j \in DOMAIN c : SWExactAt(c, j)
    /\ 3 <= max_entries => SWExample

\* C26's case: with limit 3 and window 2, grants at 0, 0 and 1, a denial at 1, and
\* a grant at 2 with remaining 1, the two grants of 0 having left the window.
C26_Witness ==
    LET c == ChecksOf(hist.sw, "k1")
    IN  /\ cfg.limit = 3 /\ cfg.window = 2 /\ cfg.limit <= max_entries /\ Len(c) = 5
        /\ c[1].now = 0 /\ c[2].now = 0 /\ c[3].now = 1 /\ c[4].now = 1 /\ c[5].now = 2
        /\ c[3].result.allowed /\ Denied(c[4])
        /\ c[5].result.allowed /\ c[5].result.remaining = 1

\* ------------------------------------------ further claims on SpecFW: counts
\* how many checks before check j of c were allowed in the aligned window of j
AllowedInWindow(c, j) ==
    Cardinality({i \in 1..(j - 1) : /\ c[i].result.allowed
                                    /\ Aligned(c[i].now, cfg.window) = Aligned(c[j].now, cfg.window)})

\* C27: a fixed window check, run one at a time with one (limit, window), is
\* allowed if and only if fewer than limit checks of the key were already allowed
\* in the current window [floor(now / window) x window, floor(now / window) x
\* window + window), and an allowed decision has remaining = limit - (count after
\* the increment) and reset_time = window_start + window.
C27_ExactCount ==
    \A key \in OneKey :
        LET c == ChecksOf(hist.fw, key)
        IN  \A j \in DOMAIN c :
                /\ c[j].result.allowed <=> AllowedInWindow(c, j) < cfg.limit
                /\ c[j].result.allowed =>
                    /\ c[j].result.remaining = cfg.limit - (AllowedInWindow(c, j) + 1)
                    /\ c[j].result.reset_time =
                          Some((Aligned(c[j].now, cfg.window) + cfg.window) * TimeScale)

\* C27's case: with limit 2 and window 3, grants at 1 and 2 and a denial at 2 in
\* the window [0, 3), then a grant at 3 with remaining 1 and reset_time 6.
C27_Witness ==
    LET c == ChecksOf(hist.fw, "k1")
    IN  /\ cfg.limit = 2 /\ cfg.window = 3 /\ Len(c) = 4
        /\ c[1].now = 1 /\ c[2].now = 2 /\ c[3].now = 2 /\ c[4].now = 3
        /\ c[1].result.allowed /\ c[2].result.allowed /\ Denied(c[3])
        /\ c[4].result.allowed /\ c[4].result.remaining = 1
        /\ c[4].result.reset_time = Some(6 * TimeScale)

\* ------------------------------------- further claims on SpecComposite: quota
\* how many checks made as e was made sub-strategy n would allow in a row on its
\* state map st
Available(n, st, e) ==
    LET r == CheckLimit(n, st, e.key, e.limit, e.window, e.now).result
    IN  IF r.allowed THEN r.remaining + 1 ELSE 0

\* sub-strategy n was invoked in the step, allowed the call, and is left with one
\* unit of quota less for the key
Consumed(n, e) ==
    /\ Invoked(n)
    /\ Last(hist'[n]).result.allowed
    /\ Available(n, store'[n], e) = Available(n, store[n], e) - 1

\* C28: when a composite check is denied, every sub-strategy that precedes the
\* denying one in iteration order has consumed one unit of quota for the key.
C28_EarlierConsumed ==
    [][CompositeChecked =>
        LET e == Last(hist'.composite)
        IN  (e.error = "none" /\ ~e.result.allowed) =>
                \A j \in 1..(e.invoked - 1) : Consumed(limiters[j], e)]_vars

\* C28's case: a composite of three sub-strategies has never allowed a call: the
\* third denied the first call, the first two consuming quota, and now the first
\* sub-strategy denies.
C28_Witness ==
    LET c == hist.composite
    IN  /\ Len(limiters) = 3 /\ Len(c) >= 2
        /\ \A i \in DOMAIN c : c[i].op = "check" /\ c[i].error = "none" /\ ~c[i].result.allowed
        /\ c[1].invoked = 3
        /\ Last(c).invoked = 1

\* ------------------------------------------- the timestamp log under threads
\* the sequence q never goes down from front to back
NonDecreasing(q) == \A i \in 1..(Len(q) - 1) : q[i] <= q[i + 1]

\* C29 as claimed: in every reachable state of a sliding window limiter, those
\* reached by concurrent check_limit calls on one key included, each key's
\* timestamp log is ordered oldest-first.
C29_AsClaimed == \A key \in DOMAIN store.sw : NonDecreasing(store.sw[key])

\* ------------------------- SlidingWindowLimiter, a limit of its own for each call
\* the caps of these runs: none, one, one below the largest limit, the default
AnyCaps == {0, 1, MaxLimit - 1, DefaultMaxEntries}

\* cfg.limit is the largest limit a caller passes; the callers pass the shortest
\* window
InitAnyLimit ==
    /\ InitCommon
    /\ cfg \in {c \in CompositeConfigs : c.limit = MaxLimit}
    /\ mult = DefaultMult
    /\ max_entries \in AnyCaps
    /\ limiters = <<>>

AnyLimitCall ==
    \E key \in OneKey : \E limit \in 1..cfg.limit :
        /\ Len(hist.sw) < MaxAnyLimitCalls
        /\ Check("sw", key, limit, cfg.window)

NextAnyLimit == Tick \/ AnyLimitCall \/ SWResetCall

SpecAnyLimit == InitAnyLimit /\ [][NextAnyLimit]_vars

\* C30: in every reachable state of a sliding window limiter, after any sequence
\* of check_limit and reset calls with any limits, the length of each key's
\* timestamp log is at most max_entries_per_key.
C30_LogBounded == \A key \in DOMAIN store.sw : Len(store.sw[key]) <= max_entries

\* C30's case: with max_entries_per_key = 2, a check with limit 3 was granted on a
\* log of two entries, the oldest was evicted, and the log holds two entries; the
\* calls before it had other limits.
C30_Witness ==
    LET c == ChecksOf(hist.sw, "k1")
    IN  /\ max_entries = 2 /\ Len(c) >= 3
        /\ Last(c).limit = 3 /\ Last(c).result.allowed /\ Last(c).result.remaining = 0
        /\ c[1].limit # 3
        /\ Len(store.sw["k1"]) = 2

\* ------------------------------------------- threads on one token bucket
InitBuckets ==
    /\ InitCommon
    /\ cfg \in CompositeConfigs
    /\ mult \in CompositeMults
    /\ max_entries = DefaultMaxEntries
    /\ limiters = <<>>

BucketCall == \E t \in Threads : \E key \in OneKey : ReadClock(t, "tb", key)

NextBuckets == Tick \/ BucketCall \/ Enter \/ Run

\* threads calling check_limit on one token bucket limiter
SpecBuckets == InitBuckets /\ [][NextBuckets]_vars

\* C31 as claimed: in every reachable state of a token bucket limiter, those
\* reached by concurrent check_limit calls on one key included, each bucket holds
\* 0 <= tokens <= capacity, the capacity computed by the key's most recent check.
C31_AsClaimed ==
    \A key \in DOMAIN store.tb :
        /\ 0 <= store.tb[key].tokens
        /\ store.tb[key].tokens <= TBCapacity(cfg.limit, mult) * TokScale

\* ------------- FixedWindowLimiter, a limit and a window of its own for each call
\* the limits a caller passes in these runs: the least and the largest
AnyLimits == {1, cfg.limit}

InitAnyWindow ==
    /\ InitCommon
    /\ cfg \in {c \in CompositeConfigs : c.limit = MaxLimit}
    /\ mult = DefaultMult
    /\ max_entries = DefaultMaxEntries
    /\ limiters = <<>>

AnyWindowCall ==
    \E key \in OneKey : \E limit \in AnyLimits : \E window \in Windows :
        /\ Len(hist.fw) < MaxAnyLimitCalls
        /\ Check("fw", key, limit, window)

NextAnyWindow == Tick \/ AnyWindowCall \/ FWResetCall

SpecAnyWindow == InitAnyWindow /\ [][NextAnyWindow]_vars

\* the largest limit the checks c were made with
LargestLimit(c) == CHOOSE m \in {c[i].limit : i \in DOMAIN c} : \A i \in DOMAIN c : c[i].limit <= m

\* the record of the key holds 0 <= count <= bound, and its window_start is a
\* multiple of the window of the key's most recent check e, with
\* window_start <= time of e < window_start + window
FWRecordWithin(key, e, bound) ==
    LET window_data == store.fw[key]
    IN  /\ 0 <= window_data.count /\ window_data.count <= bound
        /\ window_data.window_start % e.window = 0
        /\ window_data.window_start <= e.now
        /\ e.now < window_data.window_start + e.window

\* C32 as claimed: in every reachable state of a fixed window limiter each key's
\* record has 0 <= count <= the limit of the key's most recent check, and
\* window_start is a multiple of that check's window with window_start <= that
\* check's time < window_start + window.
C32_AsClaimed ==
    \A key \in DOMAIN store.fw :
        LET c == ChecksOf(hist.fw, key) IN FWRecordWithin(key, Last(c), Last(c).limit)

\* C32 amended: the same with count <= the largest limit of the checks made for
\* the key since its last reset.
C32_RecordBounds ==
    \A key \in DOMAIN store.fw :
        LET c == ChecksOf(hist.fw, key) IN FWRecordWithin(key, Last(c), LargestLimit(c))

\* C32's case: two checks with limit 3 and window 2 were granted at 1, and a check
\* with limit 1 and window 3 at 2, its window starting at 0 as theirs did, found
\* the count at 2 and was denied: count 2, window_start 0.
C32_Witness ==
    LET c == ChecksOf(hist.fw, "k1")
    IN  /\ Len(c) = 3
        /\ c[1].limit = 3 /\ c[2].limit = 3 /\ c[1].window = 2 /\ c[2].now = 1
        /\ c[3].limit = 1 /\ c[3].window = 3 /\ c[3].now = 2 /\ Denied(c[3])
        /\ store.fw["k1"] = [count |-> 2, window_start |-> 0]

\* ------------------------------------------ further claims on SpecKeys
\* a step on strategy n: a check_limit call removes no key from the state map and
\* leaves it holding the key checked, and a reset removes the key's entry
KeyLifecycle(n) ==
    /\ Checked(n) =>
        /\ DOMAIN store[n] \subseteq DOMAIN store'[n]
        /\ Last(hist'[n]).key \in DOMAIN store'[n]
    /\ WasResetNow(n) => Last(hist'[n]).key \notin DOMAIN store'[n]

\* C33 as claimed: on every strategy the state of a key is created by the first
\* check_limit for the key, check_limit never removes a key from the state map, so
\* that between resets the set of keys held only grows, and reset(key) removes the
\* key's entry from the map.
C33_AsClaimed == [][\A n \in Strategies : KeyLifecycle(n)]_vars

\* the same for the token bucket and the fixed window limiter alone
C33_ExceptSliding == [][\A n \in {"tb", "fw"} : KeyLifecycle(n)]_vars

\* ------------------------------- two keys on one strategy, time passing
\* the callers pass the shortest window and a limit that MaxKeyCalls calls can use up
InitPartition ==
    /\ InitCommon
    /\ cfg \in {c \in CompositeConfigs : 2 * c.limit < MaxKeyCalls}
    /\ mult = DefaultMult
    /\ max_entries = DefaultMaxEntries
    /\ limiters = <<>>

\* a run calls one strategy
PartitionCheck ==
    \E n \in Strategies : \E key \in Keys :
        /\ OnlyOn(n)
        /\ Len(hist[n]) < MaxKeyCalls
        /\ Check(n, key, cfg.limit, cfg.window)
\* and resets the keys it has checked
PartitionReset ==
    \E n \in Strategies : \E key \in Keys :
        /\ OnlyOn(n)
        /\ ChecksOf(hist[n], key) # <<>>
        /\ Reset(n, key)

NextPartition == Tick \/ PartitionCheck \/ PartitionReset

SpecPartition == InitPartition /\ [][NextPartition]_vars

\* the calls of hist made for the key, checks and resets
CallsFor(h, key) == SelectSeq(h, LAMBDA e : e.key = key)

\* the stored state of every key on strategy n is what the last call made for
\* that key left: no call made for another key since has changed it
OtherKeysKept(n) ==
    \A key \in Keys :
        LET own == CallsFor(hist[n], key)
        IN  IF own = <<>> THEN key \notin DOMAIN store[n]
            ELSE StateOf(store[n], key) = Last(own).state

\* what the checks of each key since its last reset got back on strategy n is
\* what the same checks get back, at their times, on a strategy that is never
\* called for another key
OwnCallsOnly(n) ==
    \A key \in Keys :
        LET c == ChecksOf(hist[n], key)
            alone == OneAtATime(n, EmptyDict, key, [i \in DOMAIN c |-> c[i].now], <<>>)
        IN  /\ \A i \in DOMAIN c : Seen(c[i]) = alone.seen[i]
            /\ c # <<>> => StateOf(store[n], key) = StateOf(alone.state, key)

\* C34: on every strategy check_limit(k, ...) and reset(k) leave the stored state
\* of every other key unchanged, and the decisions returned for a key depend only
\* on the calls made for that key and their times.
C34_KeyPartitioned == \A n \in Strategies : OtherKeysKept(n) /\ OwnCallsOnly(n)

\* C34's case: on a sliding window limiter with limit 1, k1 was granted and then
\* denied at one instant; a window later k2 was granted, k1's log left untrimmed.
C34_Witness ==
    /\ cfg.limit = 1 /\ Len(hist.sw) = 3
    /\ hist.sw[1].key = "k1" /\ hist.sw[1].result.allowed
    /\ hist.sw[2].key = "k1" /\ Denied(hist.sw[2])
    /\ hist.sw[3].key = "k2" /\ hist.sw[3].result.allowed
    /\ hist.sw[3].now = hist.sw[1].now + cfg.window
    /\ store.sw["k1"] = <<hist.sw[1].now>>

\* ------------------------------------- further claims on SpecAnyLimit
\* a cap the log of the key cannot reach in one more call
Roomy(wins, key) == Len(IF key \in DOMAIN wins THEN wins[key] ELSE <<>>) + 2

\* the checks c of one key made one after the other, from the i-th on, on a
\* sliding window limiter whose cap is never reached: what each got back and the
\* log it left
RECURSIVE UncappedSeries(_, _, _, _)
UncappedSeries(wins, c, i, seen) ==
    IF i > Len(c) THEN seen
    ELSE LET e == c[i]
             out == SWCheck(wins, e.key, e.limit, e.window, e.now, Roomy(wins, e.key))
         IN  UncappedSeries(out.state, c, i + 1,
                            Append(seen, [result |-> out.result, error |-> out.error,
                                          state |-> StateOf(out.state, e.key)]))

\* C35: whenever the limits passed are at most max_entries_per_key, the cap
\* eviction of the sliding window limiter never removes an entry: every decision,
\* and the log every check leaves, is the one an uncapped log would give.
C35_CapUnused ==
    \A key \in OneKey :
        LET c == ChecksOf(hist.sw, key)
            uncapped == UncappedSeries(EmptyDict, c, 1, <<>>)
        IN  (\A i \in DOMAIN c : c[i].limit <= max_entries) =>
                \A i \in DOMAIN c :
                    [result |-> c[i].result, error |-> c[i].error, state |-> c[i].state]
                        = uncapped[i]

\* C35's case: with max_entries_per_key = 2, two checks with limit 2 were granted
\* and filled the log to the cap, and a third check was denied on it.
C35_Witness ==
    LET c == ChecksOf(hist.sw, "k1")
    IN  /\ max_entries = 2 /\ Len(c) = 3
        /\ \A i \in DOMAIN c : c[i].limit = 2
        /\ c[2].result.allowed /\ Denied(c[3])
        /\ Len(store.sw["k1"]) = max_entries

\* --------------------------------------- further claims on SpecFW: rates
\* how many of the events g have their time in [t, t + span]
InSpan(g, t, span) == Cardinality({i \in DOMAIN g : t <= g[i].now /\ g[i].now <= t + span})

\* C36: for a fixed window limiter with one (limit, window), calls made one at a
\* time, the allowed checks of a key in any time interval of length at most window
\* are at most 2 x limit, and those inside one aligned window at most limit.
C36_TwiceLimit ==
    \A key \in OneKey : \A t \in 0..MaxTime :
        LET g == Grants(ChecksOf(hist.fw, key))
        IN  /\ \A span \in 0..cfg.window : InSpan(g, t, span) <= 2 * cfg.limit
            /\ InAligned(g, t, cfg.window) <= cfg.limit

\* C36's case: with limit 2, two checks granted in the last second of a window
\* and two in the first second of the next, 2 x limit within one second, and a
\* fifth denied.
C36_Witness ==
    LET c == ChecksOf(hist.fw, "k1")
    IN  /\ cfg.limit = 2 /\ Len(c) = 5
        /\ c[1].now = cfg.window - 1 /\ c[2].now = c[1].now
        /\ c[3].now = cfg.window /\ c[5].now = cfg.window
        /\ \A i \in 1..4 : c[i].result.allowed
        /\ Denied(c[5])
        /\ InSpan(Grants(c), cfg.window - 1, 1) = 2 * cfg.limit

InitDirect ==
    /\ InitCommon
    /\ cfg \in CompositeConfigs
    /\ mult \in CompositeMults
    /\ max_entries \in MaxEntriesChoices
    /\ mult = DefaultMult \/ max_entries = DefaultMaxEntries
    /\ limiters = <<>>

\* a run calls one strategy
DirectCheck ==
    \E n \in Strategies : \E key \in OneKey :
        OnlyOn(n) /\ Check(n, key, cfg.limit, cfg.window)
DirectReset ==
    \E n \in Strategies : \E key \in OneKey : OnlyOn(n) /\ Reset(n, key)

NextDirect == Tick \/ DirectCheck \/ DirectReset

SpecDirect == InitDirect /\ [][NextDirect]_vars

\* whether a check made as e was made, but at time t, is allowed on state map st
AllowedLater(n, st, e, t) == CheckLimit(n, st, e.key, e.limit, e.window, t).result.allowed

\* the tokens of the key's bucket, those of a new bucket when there is none
TokensOf(bks, e) ==
    IF e.key \in DOMAIN bks THEN bks[e.key].tokens
    ELSE TBCapacity(e.limit, mult) * TokScale

RECURSIVE Further(_, _, _, _, _)
Further(n, st, e, k, allowed) ==
    IF k = 0 THEN allowed
    ELSE LET out == CheckLimit(n, st, e.key, e.limit, e.window, e.now)
         IN  Further(n, out.state, e, k - 1,
                     Append(allowed, out.error = "none" /\ out.result.allowed))

\* after the allowed check e with remaining = r on strategy n, exactly r further
\* checks at the same instant are allowed and the one after them is denied
RemainingExact(n, e) ==
    LET r == e.result.remaining
        after == Further(n, [k \in {e.key} |-> e.state[1]], e, r + 1, <<>>)
    IN  /\ \A j \in 1..r : after[j]
        /\ ~after[r + 1]

\* the call strategy n completed last is an allowed check; every allowed check is
\* the last call in the state it leaves
LastAllowed(n) ==
    /\ hist[n] # <<>>
    /\ Last(hist[n]).op = "check" /\ Last(hist[n]).error = "none"
    /\ Last(hist[n]).result.allowed

\* C39 as claimed: on a token bucket, a sliding window and a fixed window limiter,
\* after an allowed decision with remaining = r exactly r further checks issued
\* at the same instant with the same (key, limit, window) are allowed and the one
\* after them is denied.
C39_AsClaimed ==
    \A n \in Strategies : LastAllowed(n) => RemainingExact(n, Last(hist[n]))

\* C39 amended: the same, on the sliding window limiter whenever
\* limit <= max_entries_per_key.
C39_RemainingExact ==
    \A n \in Strategies :
        (LastAllowed(n) /\ (n = "sw" => cfg.limit <= max_entries))
            => RemainingExact(n, Last(hist[n]))

\* C39's case: on a sliding window limiter with limit 3 a check was allowed with
\* remaining 2 while one granted timestamp had left the window, two more at the
\* same instant were allowed and the next was denied.
C39_Witness ==
    LET c == ChecksOf(hist.sw, "k1")
    IN  /\ cfg.limit = 3 /\ cfg.limit <= max_entries /\ Len(c) = 5
        /\ c[2].now = c[1].now + cfg.window
        /\ c[2].result.allowed /\ c[2].result.remaining = 2
        /\ c[5].now = c[2].now
        /\ c[3].result.allowed /\ c[4].result.allowed /\ Denied(c[5])

\* ------------------------- further claims on SpecComposite: no sub-strategies
\* C40 as claimed: a composite limiter built with an empty mapping of
\* sub-strategies returns an allowed decision with limit_type composite for every
\* check_limit call, and the call does not end in an error.
C40_AsClaimed ==
    [][(CompositeChecked /\ limiters = <<>>) =>
        /\ Last(hist'.composite).error = "none"
        /\ Last(hist'.composite).result.allowed
        /\ Last(hist'.composite).result.limit_type = "composite"]_vars

====
